---- MODULE Spec2Model ----
(***************************************************************************)
(* Model of the deal bot: the dedup store (database.py), the dispatch loop *)
(* of run_bot (run_once.py), the fetcher fetch_html and the discovery      *)
(* pipeline discover_deals with enrich_missing_fields (scraper.py), and,   *)
(* each run on its own, compute_discount (scraper.py), the threshold       *)
(* selection and filter of run_bot and send_telegram_message (run_once.py).*)
(* One result block of parse_search_page (scraper.py), one whole run of    *)
(* run_bot from start to exit code, and two runs of run_bot on one store   *)
(* are modelled as well, and should_skip_deal called at will on a store.   *)
(*                                                                         *)
(* Time is counted in whole hours.  Prices are whole rupees.  A missing    *)
(* value (Python None) of a numeric field is the value None.               *)
(***************************************************************************)
EXTENDS Integers, Sequences, FiniteSets, TLC

\* ------------------------------------------------------------------ config

\* config.POST_COOLDOWN_HOURS (hours)
POST_COOLDOWN_HOURS == 72
\* config.DB_RETENTION_DAYS (days)
DB_RETENTION_DAYS == 14
\* config.REPOST_PRICE_DROP_PERCENT (percent)
REPOST_PRICE_DROP_PERCENT == 8
\* config.MAX_POSTS_PER_RUN, set through the environment (default 8)
MAX_POSTS_PER_RUN == 1
\* config.MAX_CANDIDATES_PER_CATEGORY (default)
MAX_CANDIDATES_PER_CATEGORY == 35
\* the max_lookups discover_deals passes to enrich_missing_fields
MAX_LOOKUPS == 10

\* ------------------------------------------------------------------ bounds

\* number of runs of run_bot in one behaviour
MaxRuns == 2
\* largest value of config.MAX_REQUEST_RETRIES that is explored
MaxCeiling == 4

\* Python None in a numeric field
None == -1
\* a stored last_price that float() does not take (a text such as "n/a")
NonNumeric == -2

\* the item ids (asins) of the catalog
Asins == {1, 2}
\* deal prices of discovered candidates; 0 is a price the parser can produce
Prices == {0, 920, 1000}
\* prices asked of should_skip_deal in the claims (None: a missing price)
QueryPrices == {None, 0, 900, 919, 920, 921, 960, 1000}
\* hours after now at which the claims ask should_skip_deal
QueryDelays == {0, 1, 71, 72, 73}
\* hours that pass between two runs
TimeSteps == {1, 71, 72, 337}

VARIABLES
    \* ---- dedup store and run_bot
    now,            \* the clock, in hours
    db,             \* the TinyDB table: sequence of documents, insertion order
    runs,           \* number of runs started so far
    rpc,            \* run_bot: "idle" between runs, "loop" in the dispatch loop
    visited,        \* run_bot: ids of the candidates the for loop has been through
    posted,         \* run_bot: local counter posted
    lastEvent,      \* history: what the last step of run_bot did, and to which id
    posts,          \* history: per id, the last two successful posts [at, price]
    \* ---- fetch_html
    max_request_retries, \* config.MAX_REQUEST_RETRIES of this behaviour
    fpc,            \* "idle", "loop" (inside the for loop), "done" (returned)
    attempt,        \* loop variable attempt (0 before the first iteration)
    gets,           \* history: number of session.get calls of this fetch_html call
    flog,           \* history: what each session.get of this call produced
    fhtml,          \* returned html: TRUE for a page, FALSE for None
    ferr,           \* returned error_reason: "none", "captcha", "http", "network"
    wallSeen,       \* history: some fetch_html call has returned "captcha"
    \* ---- discover_deals
    stop_on_captcha, \* config.STOP_ON_CAPTCHA of this behaviour
    max_candidates_per_category, \* config.MAX_CANDIDATES_PER_CATEGORY
    from_cat,       \* history: per element of all_deals, the category it came from
    dpc,            \* "idle", "scan", "fetch_listing", "enrich", "fetch_detail", "done", "returned"
    cat,            \* position in the category list
    page,           \* _scan_category: loop variable page
    kept_for_cat,   \* _scan_category: kept_for_cat
    seen_asins,     \* discover_deals: seen_asins
    all_deals,      \* discover_deals: all_deals
    eidx,           \* enrich_missing_fields: position of the for loop in deals
    lookups,        \* enrich_missing_fields: lookups
    max_lookups,    \* enrich_missing_fields: parameter max_lookups
    scrapes,        \* history: scrape_product_page calls of this enrich call
    deals0,         \* history: the list deals as enrich_missing_fields got it
    captcha_hit,    \* the second component of what discover_deals returned
    \* ---- compute_discount
    cd_pc,          \* "idle" before the call, "done" after it
    cd_original,    \* argument original_price
    cd_deal,        \* argument deal_price
    cd_result,      \* the value returned
    \* ---- choose_discount_threshold and the filter of run_bot
    sel_pc,         \* "idle", "chosen" (threshold returned), "filtered"
    enable_dynamic_discount, \* config.ENABLE_DYNAMIC_DISCOUNT
    minimum_discount,        \* config.MINIMUM_DISCOUNT
    lowest_discount_floor,   \* config.LOWEST_DISCOUNT_FLOOR
    discount_fallback_step,  \* config.DISCOUNT_FALLBACK_STEP
    target_deals_per_run,    \* config.TARGET_DEALS_PER_RUN
    deals,          \* run_bot: deals, the pool discover_deals returned
    threshold,      \* run_bot: threshold
    candidates,     \* run_bot: candidates, before the sort
    \* ---- send_telegram_message
    tg_pc,          \* "idle", "loop" (inside the for loop), "done" (returned)
    tg_attempt,     \* loop variable attempt (0 before the first iteration)
    tg_image_url,   \* local image_url: TRUE while an image URL is set
    tg_log,         \* history: the session.post calls of this call
    tg_ret,         \* the value returned
    \* ---- parse_search_page, one result block
    ps_pc,          \* "idle" before the block is parsed, "done" after it
    ps_block,       \* the result block: what the extraction helpers find in it
    ps_results,     \* what the block added to results
    \* ---- run_bot, the whole pipeline of one run
    ppc,            \* "idle", "discover", "select", "dispatch", "sending", "tip", "exited"
    has_token,      \* config.TELEGRAM_BOT_TOKEN is set
    cidx,           \* position of the for loop in the sorted candidates
    exit_code,      \* what run_bot returned (None before it returns)
    rlog,           \* history: what the dispatch loop did, in order
    db_before,      \* history: the store when run_bot was entered
    \* ---- two runs of run_bot on one store
    cpc,            \* per run: "check", "send", "record", "done"
    cdeal,          \* per run: the candidate its loop is at
    cok,            \* per run: what send_telegram_message returned
    cposts,         \* history: the posts delivered, [run, asin, price, at]
    \* ---- should_skip_deal called at will
    sk_calls,       \* should_skip_deal calls since the last record_posted_deal call
    sk_records,     \* record_posted_deal calls so far
    sk_asin,        \* argument asin of the last call
    sk_price,       \* argument current_price of the last call
    sk_ret          \* what the last call returned

varsStore == <<now, db, runs, rpc, visited, posted, lastEvent, posts>>
varsFetch == <<max_request_retries, fpc, attempt, gets, flog, fhtml, ferr, wallSeen>>
varsDisc == <<stop_on_captcha, max_candidates_per_category, from_cat, dpc, cat, page, kept_for_cat, seen_asins, all_deals,
              eidx, lookups, max_lookups, scrapes, deals0, captcha_hit>>
vars == <<now, db, runs, rpc, visited, posted, lastEvent, posts,
          max_request_retries, fpc, attempt, gets, flog, fhtml, ferr, wallSeen,
          stop_on_captcha, max_candidates_per_category, from_cat,
          dpc, cat, page, kept_for_cat, seen_asins, all_deals,
          eidx, lookups, max_lookups, scrapes, deals0, captcha_hit,
          cd_pc, cd_original, cd_deal, cd_result,
          sel_pc, enable_dynamic_discount, minimum_discount,
          lowest_discount_floor, discount_fallback_step, target_deals_per_run,
          deals, threshold, candidates,
          tg_pc, tg_attempt, tg_image_url, tg_log, tg_ret,
          ps_pc, ps_block, ps_results,
          ppc, has_token, cidx, exit_code, rlog, db_before,
          cpc, cdeal, cok, cposts,
          sk_calls, sk_records, sk_asin, sk_price, sk_ret>>
varsCalc == <<cd_pc, cd_original, cd_deal, cd_result>>
varsSel == <<sel_pc, enable_dynamic_discount, minimum_discount,
             lowest_discount_floor, discount_fallback_step, target_deals_per_run,
             deals, threshold, candidates>>
varsSend == <<tg_pc, tg_attempt, tg_image_url, tg_log, tg_ret>>
\* the functions that are run on their own
varsParse == <<ps_pc, ps_block, ps_results>>
varsRun == <<ppc, has_token, cidx, exit_code, rlog, db_before>>
varsConc == <<cpc, cdeal, cok, cposts>>
varsSkip == <<sk_calls, sk_records, sk_asin, sk_price, sk_ret>>
varsMore == <<varsParse, varsRun, varsConc, varsSkip>>
varsUnits == <<varsCalc, varsSel, varsSend, varsMore>>

Range(s) == {s[i] : i \in DOMAIN s}

\* ------------------------------------------------------------------ database.py

\* doc.get("last_posted_at") or doc.get("timestamp") or doc.get("date"),
\* parsed by _parse_any_timestamp: the first timestamp present, as hours
last_ts(doc) ==
    IF doc.last_posted_at # None THEN doc.last_posted_at
    ELSE IF doc.timestamp # None THEN doc.timestamp
    ELSE doc.date

\* db.search(Posted.asin == asin): positions of the matching documents
db_search(d, asin) == {i \in DOMAIN d : d[i].asin = asin}

\* db.get(Posted.asin == asin): position of the first match, 0 for no match
db_get(d, asin) ==
    IF db_search(d, asin) = {} THEN 0
    ELSE CHOOSE i \in db_search(d, asin) : \A j \in db_search(d, asin) : i <= j

\* a cleanup_old_records that looks at last_posted_at only
cleanup_old_records_new_schema(d, t) ==
    LET cutoff == t - DB_RETENTION_DAYS * 24
        keep(doc) == ~(doc.last_posted_at # None /\ doc.last_posted_at < cutoff)
    IN SelectSeq(d, keep)

\* cleanup_old_records at time t
cleanup_old_records(d, t) ==
    LET cutoff == t - DB_RETENTION_DAYS * 24
        keep(doc) == ~(last_ts(doc) # None /\ last_ts(doc) < cutoff)
    IN SelectSeq(d, keep)

\* line 98: hours since the last post of the document, at time t
hours_since(doc, t) == t - last_ts(doc)

\* lines 102-106: float(last_price), None for None and for a value that
\* float() rejects
to_float(last_price) ==
    IF last_price = None \/ last_price = NonNumeric THEN None ELSE last_price

\* a price_drop_override that does not look at the current price first
price_drop_override_any_current(last_price, current_price) ==
    /\ last_price # None /\ last_price # 0
    /\ last_price > 0
    /\ (last_price - current_price) * 100 >= REPOST_PRICE_DROP_PERCENT * last_price

\* a price_drop_override that asks for a drop above the override
price_drop_override_strict(last_price, current_price) ==
    /\ last_price # None /\ last_price # 0
    /\ current_price # None /\ current_price # 0
    /\ last_price > 0
    /\ (last_price - current_price) * 100 > REPOST_PRICE_DROP_PERCENT * last_price

\* lines 102-111: both prices are positive numbers and the price fell by at
\* least REPOST_PRICE_DROP_PERCENT percent of the last price
price_drop_override(last_price, current_price) ==
    /\ last_price # None /\ last_price # 0
    /\ current_price # None /\ current_price # 0
    /\ last_price > 0
    /\ (last_price - current_price) * 100 >= REPOST_PRICE_DROP_PERCENT * last_price

\* a should_skip_deal that takes the elapsed minutes for hours
should_skip_deal_minutes(d, asin, current_price, t) ==
    IF asin = None \/ db_get(d, asin) = 0 THEN FALSE
    ELSE LET existing == d[db_get(d, asin)] IN
        IF last_ts(existing) = None THEN FALSE
        ELSE IF hours_since(existing, t) * 60 >= POST_COOLDOWN_HOURS THEN FALSE
        ELSE ~price_drop_override(to_float(existing.last_price), current_price)

\* a should_skip_deal that skips the ids it has no record of
should_skip_deal_unknown(d, asin, current_price, t) ==
    IF asin = None THEN FALSE
    ELSE IF db_get(d, asin) = 0 THEN TRUE
    ELSE LET existing == d[db_get(d, asin)] IN
        IF last_ts(existing) = None THEN FALSE
        ELSE IF hours_since(existing, t) >= POST_COOLDOWN_HOURS THEN FALSE
        ELSE ~price_drop_override(to_float(existing.last_price), current_price)

\* should_skip_deal(asin, current_price) against table d at time t
should_skip_deal(d, asin, current_price, t) ==
    IF asin = None THEN FALSE
    ELSE IF db_get(d, asin) = 0 THEN FALSE
    ELSE LET existing == d[db_get(d, asin)] IN
        IF last_ts(existing) = None THEN FALSE
        ELSE IF hours_since(existing, t) >= POST_COOLDOWN_HOURS THEN FALSE
        ELSE ~price_drop_override(to_float(existing.last_price), current_price)

\* db.upsert(payload, Posted.asin == asin): update every matching document
\* with the payload's fields, or insert the payload when none matches
db_upsert(d, asin, price, t, setFirst) ==
    LET upd(doc) == [doc EXCEPT !.last_price = price,
                                !.last_posted_at = t,
                                !.first_seen_at = IF setFirst THEN t ELSE @]
        fresh == [asin |-> asin, last_price |-> price, last_posted_at |-> t,
                  first_seen_at |-> IF setFirst THEN t ELSE None,
                  timestamp |-> None, date |-> None]
    IN IF db_search(d, asin) = {}
       THEN Append(d, fresh)
       ELSE [i \in DOMAIN d |-> IF d[i].asin = asin THEN upd(d[i]) ELSE d[i]]

\* a record_posted_deal that stamps first_seen_at on every call
record_posted_deal_restamp(d, deal, t) ==
    IF deal.asin = None THEN d
    ELSE db_upsert(d, deal.asin, deal.deal_price, t, TRUE)

\* record_posted_deal(deal) against table d at time t
record_posted_deal(d, deal, t) ==
    IF deal.asin = None THEN d
    ELSE LET e == db_get(d, deal.asin)
             setFirst == e = 0 \/ d[e].first_seen_at = None
         IN db_upsert(d, deal.asin, deal.deal_price, t, setFirst)

\* ------------------------------------------------------------------ run_once.py

\* A candidate that passed the filter of run_bot: its id and its deal price.
\* discover_deals keeps the first occurrence of an id, so the candidate list
\* of a run holds every id at most once.  The list is revealed one element
\* per loop iteration: visited holds the ids the loop has been through, the
\* next candidate is any deal of another id, and the list may end anywhere.
Deals == [asin : Asins, deal_price : Prices]

\* history: remember the last two successful posts of an id
push_post(ps, asin, t, price) ==
    [ps EXCEPT ![asin] =
        IF Len(@) = 0 THEN <<[at |-> t, price |-> price]>>
        ELSE <<@[Len(@)], [at |-> t, price |-> price]>>]

\* an after_send that records the post whatever send_telegram_message returned
after_send_always(d, deal, ok, t) == record_posted_deal(d, deal, t)

\* lines 215-221: the table after send_telegram_message returned ok
after_send(d, deal, ok, t) ==
    IF ok THEN record_posted_deal(d, deal, t) ELSE d

\* run_bot without TELEGRAM_BOT_TOKEN: returns 2 before touching the store
RunNoToken ==
    /\ rpc = "idle" /\ runs < MaxRuns
    /\ runs' = runs + 1
    /\ lastEvent' = [kind |-> "no_token", asin |-> None]
    /\ UNCHANGED <<now, db, rpc, visited, posted, posts>>
    /\ UNCHANGED <<varsFetch, varsDisc, varsUnits>>

\* run_bot lines 158-198: initialize_database() prunes the store, then
\* discover_deals() returns (deals, captcha_hit); on captcha_hit (hit) the run
\* returns 0, otherwise the filtered and sorted candidates enter the loop.
\* d hours have passed since the previous run.
RunStart(d, hit) ==
    /\ rpc = "idle" /\ runs < MaxRuns
    /\ runs' = runs + 1
    /\ now' = now + d
    /\ db' = cleanup_old_records(db, now')
    /\ IF hit
       THEN /\ rpc' = "idle"
            /\ lastEvent' = [kind |-> "captcha", asin |-> None]
       ELSE /\ rpc' = "loop"
            /\ lastEvent' = [kind |-> "start", asin |-> None]
    /\ visited' = {}
    /\ posted' = 0
    /\ UNCHANGED posts
    /\ UNCHANGED <<varsFetch, varsDisc, varsUnits>>

\* the for loop is exhausted: run_bot returns 0
RunEnd ==
    /\ rpc = "loop"
    /\ rpc' = "idle"
    /\ visited' = {} /\ posted' = 0
    /\ lastEvent' = [kind |-> "end", asin |-> None]
    /\ UNCHANGED <<now, db, runs, posts>>
    /\ UNCHANGED <<varsFetch, varsDisc, varsUnits>>

\* lines 200-201: another candidate, but posted >= MAX_POSTS_PER_RUN: break
RunBreak ==
    /\ rpc = "loop" /\ visited # Asins
    /\ posted >= MAX_POSTS_PER_RUN
    /\ rpc' = "idle"
    /\ visited' = {} /\ posted' = 0
    /\ lastEvent' = [kind |-> "break", asin |-> None]
    /\ UNCHANGED <<now, db, runs, posts>>
    /\ UNCHANGED <<varsFetch, varsDisc, varsUnits>>

\* lines 206-208: should_skip_deal says skip, continue
RunSkip(deal) ==
    /\ rpc = "loop" /\ deal.asin \notin visited
    /\ posted < MAX_POSTS_PER_RUN
    /\ should_skip_deal(db, deal.asin, deal.deal_price, now)
    /\ visited' = visited \cup {deal.asin}
    /\ lastEvent' = [kind |-> "skip", asin |-> deal.asin]
    /\ UNCHANGED <<now, db, runs, rpc, posted, posts>>
    /\ UNCHANGED <<varsFetch, varsDisc, varsUnits>>

\* lines 210-221: the message is sent; send_telegram_message returns ok.
\* Only on ok the post is recorded and counted.
RunDeliver(deal, ok) ==
    /\ rpc = "loop" /\ deal.asin \notin visited
    /\ posted < MAX_POSTS_PER_RUN
    /\ ~should_skip_deal(db, deal.asin, deal.deal_price, now)
    /\ db' = after_send(db, deal, ok, now)
    /\ posted' = IF ok THEN posted + 1 ELSE posted
    /\ posts' = IF ok THEN push_post(posts, deal.asin, now, deal.deal_price)
                ELSE posts
    /\ visited' = visited \cup {deal.asin}
    /\ lastEvent' = [kind |-> IF ok THEN "sent_ok" ELSE "sent_fail",
                     asin |-> deal.asin]
    /\ UNCHANGED <<now, runs, rpc>>
    /\ UNCHANGED <<varsFetch, varsDisc, varsUnits>>

\* a document written by the previous version of the bot: no price, no
\* first_seen_at, its time of posting under "timestamp"
LegacyDoc == [asin |-> 1, last_price |-> None, last_posted_at |-> None,
              first_seen_at |-> None, timestamp |-> 0, date |-> None]

InitStoreVars ==
    /\ now = 0
    /\ db \in {<<>>, <<LegacyDoc>>}
    /\ runs = 0
    /\ rpc = "idle"
    /\ visited = {}
    /\ posted = 0
    /\ lastEvent = [kind |-> "none", asin |-> None]
    /\ posts = [a \in Asins |-> <<>>]

IdleCalcVars ==
    /\ cd_pc = "idle"
    /\ cd_original = None
    /\ cd_deal = None
    /\ cd_result = None

IdleSelVars ==
    /\ sel_pc = "idle"
    /\ enable_dynamic_discount = TRUE
    /\ minimum_discount = 0
    /\ lowest_discount_floor = 0
    /\ discount_fallback_step = 1
    /\ target_deals_per_run = 0
    /\ deals = <<>>
    /\ threshold = 0
    /\ candidates = <<>>

IdleSendVars ==
    /\ tg_pc = "idle"
    /\ tg_attempt = 0
    /\ tg_image_url = FALSE
    /\ tg_log = <<>>
    /\ tg_ret = FALSE

IdleParseVars ==
    /\ ps_pc = "idle"
    /\ ps_block = <<>>
    /\ ps_results = <<>>

IdleRunVars ==
    /\ ppc = "idle"
    /\ has_token = TRUE
    /\ cidx = 1
    /\ exit_code = None
    /\ rlog = <<>>
    /\ db_before = <<>>

IdleConcVars ==
    /\ cpc = <<>>
    /\ cdeal = <<>>
    /\ cok = <<>>
    /\ cposts = <<>>

IdleSkipVars ==
    /\ sk_calls = 0
    /\ sk_records = 0
    /\ sk_asin = None
    /\ sk_price = None
    /\ sk_ret = FALSE

IdleMoreVars == IdleParseVars /\ IdleRunVars /\ IdleConcVars /\ IdleSkipVars

IdleUnitVars == IdleCalcVars /\ IdleSelVars /\ IdleSendVars /\ IdleMoreVars

IdleFetchVars ==
    /\ max_request_retries = 0
    /\ fpc = "idle"
    /\ attempt = 0
    /\ gets = 0
    /\ flog = <<>>
    /\ fhtml = FALSE
    /\ ferr = "none"
    /\ wallSeen = FALSE

IdleDiscVars ==
    /\ stop_on_captcha = TRUE
    /\ max_candidates_per_category = MAX_CANDIDATES_PER_CATEGORY
    /\ from_cat = <<>>
    /\ dpc = "idle"
    /\ cat = 1
    /\ page = 1
    /\ kept_for_cat = 0
    /\ seen_asins = {}
    /\ all_deals = <<>>
    /\ eidx = 1
    /\ lookups = 0
    /\ max_lookups = MAX_LOOKUPS
    /\ scrapes = 0
    /\ deals0 = <<>>
    /\ captcha_hit = FALSE

InitStore == InitStoreVars /\ IdleFetchVars /\ IdleDiscVars /\ IdleUnitVars

NextStore ==
    \/ RunNoToken
    \/ \E d \in TimeSteps, hit \in BOOLEAN : RunStart(d, hit)
    \/ RunEnd
    \/ RunBreak
    \/ \E deal \in Deals : RunSkip(deal)
    \/ \E deal \in Deals, ok \in BOOLEAN : RunDeliver(deal, ok)

SpecStore == InitStore /\ [][NextStore]_vars

\* ------------------------------------------------------------------ scraper.py: fetch_html

\* What one session.get can produce: a requests.RequestException (exc), or a
\* response with a status and a body that holds a bot-wall marker or not.
Statuses == {200, 404, 429, 503}
Responses ==
    {[exc |-> TRUE, status |-> 0, captcha |-> FALSE]}
        \cup [exc : {FALSE}, status : Statuses, captcha : BOOLEAN]

\* a loop that takes one turn too many
has_attempt_one_more(done_attempts, ceiling) == done_attempts <= ceiling

\* line 91: for attempt in range(1, MAX_REQUEST_RETRIES + 1) has another turn
has_attempt(done_attempts, ceiling) == done_attempts < ceiling

\* a loop body that looks at the status before it looks for the marker
classify_status_first(r) ==
    IF r.exc THEN "network"
    ELSE IF r.status >= 400 THEN "http"
    ELSE IF r.captcha THEN "captcha"
    ELSE "ok"

\* lines 94-135: what the loop body does with the outcome r of session.get:
\* "network" and "http" sleep and continue, "captcha" and "ok" return
classify(r) ==
    IF r.exc THEN "network"
    ELSE IF r.captcha THEN "captcha"
    ELSE IF r.status >= 400 THEN "http"
    ELSE "ok"

\* the caller enters fetch_html(url)
FetchBegin ==
    /\ fpc' = "loop"
    /\ attempt' = 0
    /\ gets' = 0
    /\ flog' = <<>>
    /\ fhtml' = FALSE
    /\ ferr' = "none"

\* one turn of the loop: session.get is called and produces r
FetchTurn(r) ==
    /\ fpc = "loop"
    /\ has_attempt(attempt, max_request_retries)
    /\ attempt' = attempt + 1
    /\ gets' = gets + 1
    /\ flog' = Append(flog, r)
    /\ UNCHANGED max_request_retries
    /\ UNCHANGED <<varsStore, varsDisc, varsUnits>>

\* lines 101-113: RequestException, sleep and continue
FetchNetworkError(r) ==
    /\ FetchTurn(r)
    /\ classify(r) = "network"
    /\ UNCHANGED <<fpc, fhtml, ferr, wallSeen>>

\* lines 117-119: marker in the body, return (None, "captcha")
FetchCaptcha(r) ==
    /\ FetchTurn(r)
    /\ classify(r) = "captcha"
    /\ fpc' = "done"
    /\ fhtml' = FALSE
    /\ ferr' = "captcha"
    /\ wallSeen' = TRUE

\* lines 121-133: status >= 400, sleep and continue
FetchHttpError(r) ==
    /\ FetchTurn(r)
    /\ classify(r) = "http"
    /\ UNCHANGED <<fpc, fhtml, ferr, wallSeen>>

\* line 135: return (html, None)
FetchOk(r) ==
    /\ FetchTurn(r)
    /\ classify(r) = "ok"
    /\ fpc' = "done"
    /\ fhtml' = TRUE
    /\ ferr' = "none"
    /\ UNCHANGED wallSeen

\* line 137: the loop is exhausted, return (None, "network")
FetchExhausted ==
    /\ fpc = "loop"
    /\ ~has_attempt(attempt, max_request_retries)
    /\ fpc' = "done"
    /\ fhtml' = FALSE
    /\ ferr' = "network"
    /\ UNCHANGED <<max_request_retries, attempt, gets, flog, wallSeen>>
    /\ UNCHANGED <<varsStore, varsDisc, varsUnits>>

\* fetch_html on its own: one call, under every ceiling up to MaxCeiling
FetchCall ==
    /\ fpc = "idle"
    /\ FetchBegin
    /\ UNCHANGED <<max_request_retries, wallSeen>>
    /\ UNCHANGED <<varsStore, varsDisc, varsUnits>>

IdleStoreVars ==
    /\ now = 0
    /\ db = <<>>
    /\ runs = 0
    /\ rpc = "idle"
    /\ visited = {}
    /\ posted = 0
    /\ lastEvent = [kind |-> "none", asin |-> None]
    /\ posts = [a \in Asins |-> <<>>]

InitFetch ==
    /\ IdleStoreVars
    /\ IdleUnitVars
    /\ IdleDiscVars
    /\ max_request_retries \in 0..MaxCeiling
    /\ fpc = "idle"
    /\ attempt = 0
    /\ gets = 0
    /\ flog = <<>>
    /\ fhtml = FALSE
    /\ ferr = "none"
    /\ wallSeen = FALSE

NextFetch ==
    \/ FetchCall
    \/ \E r \in Responses : FetchNetworkError(r)
    \/ \E r \in Responses : FetchCaptcha(r)
    \/ \E r \in Responses : FetchHttpError(r)
    \/ \E r \in Responses : FetchOk(r)
    \/ FetchExhausted

SpecFetch == InitFetch /\ [][NextFetch]_vars

\* the interpreter keeps running the call: every sleep and every session.get
\* (timeout=(5, REQUEST_TIMEOUT_SECONDS)) comes back
SpecFetchFair == SpecFetch /\ WF_vars(NextFetch)

\* ------------------------------------------------------------------ scraper.py: discover_deals

\* config.PAGES_PER_HIGH_TRAFFIC_CATEGORY and config.PAGES_PER_STANDARD_CATEGORY
PAGES_PER_HIGH_TRAFFIC_CATEGORY == 2
PAGES_PER_STANDARD_CATEGORY == 1
\* config.MAX_REQUEST_RETRIES of the discovery runs
DiscoverCeiling == 2

\* the categories in scan order: HIGH_TRAFFIC_CATEGORIES first, then
\* STANDARD_CATEGORIES (one of each here), with the pages scanned in each
Categories == <<PAGES_PER_HIGH_TRAFFIC_CATEGORY, PAGES_PER_STANDARD_CATEGORY>>

\* Line 170 evaluates ((original - deal) / original) * 100 in IEEE-754
\* doubles and round() rounds the double that results, an exact half of it
\* to the even integer.  When the exact percentage is not a half, the double
\* is within 1e-13 of it and round() gives the nearest integer.  When the
\* exact percentage is q + 1/2, the quotient is (2q + 1)/200, which no
\* double represents except for q = 12, 37, 62, 87; the product with 100
\* then lands on the half or next to it, and round() gives q + 1 for the q
\* of FloatHalfUp and q for the others: as rounding the half to even would,
\* except that 54 1/2 gives 55 and 57 1/2 gives 57.
FloatHalfUp == ({q \in 0..99 : q % 2 = 1} \ {57}) \cup {54}

\* compute_discount(original_price, deal_price), lines 163-170: None for a
\* missing or zero price (not x), a negative price or deal >= original,
\* else int(round(...)) of the percentage as line 170 evaluates it
compute_discount(original_price, deal_price) ==
    IF original_price = None \/ original_price = 0
          \/ deal_price = None \/ deal_price = 0 THEN None
    ELSE IF original_price <= 0 \/ deal_price <= 0 THEN None
    ELSE IF deal_price >= original_price THEN None
    ELSE LET n == (original_price - deal_price) * 100
             q == n \div original_price
             r == n % original_price
         IN IF 2 * r < original_price THEN q
            ELSE IF 2 * r > original_price THEN q + 1
            ELSE IF q \in FloatHalfUp THEN q + 1 ELSE q

\* prices compute_discount is called with: None, a negative price, 0 and
\* prices whose percentages fall on, next to and away from a half
CalcPrices == {None, -5, 0, 1, 3, 8, 17, 40, 91, 109, 200, 920, 1000}

\* compute_discount(cd_original, cd_deal) is called and returns
CalcCall ==
    /\ cd_pc = "idle"
    /\ cd_pc' = "done"
    /\ cd_result' = compute_discount(cd_original, cd_deal)
    /\ UNCHANGED <<cd_original, cd_deal>>
    /\ UNCHANGED <<varsStore, varsFetch, varsDisc, varsSel, varsSend, varsMore>>

InitCalc ==
    /\ IdleStoreVars
    /\ IdleFetchVars
    /\ IdleDiscVars
    /\ IdleMoreVars
    /\ IdleSelVars
    /\ IdleSendVars
    /\ cd_pc = "idle"
    /\ cd_original \in CalcPrices
    /\ cd_deal \in CalcPrices
    /\ cd_result = None

NextCalc == CalcCall

SpecCalc == InitCalc /\ [][NextCalc]_vars

\* the candidates parse_search_page can produce from a result block: an id,
\* a title (always present, line 262), the image and the prices that
\* _extract_search_image and _extract_search_prices found (None for none;
\* "Rs 0" parses to the price 0), the discount computed from the prices
CandidateItems ==
    {[asin |-> a, title |-> 1, image_url |-> img,
      deal_price |-> dp, original_price |-> op,
      discount |-> compute_discount(op, dp)] :
        a \in Asins, img \in {None, 1},
        dp \in {None, 0, 920}, op \in {None, 1000}}

\* the result blocks of the discovery runs: cards without image whose deal
\* price, when there is one, is 920
ListingItems ==
    {it \in CandidateItems : it.image_url = None /\ it.deal_price # 0}

\* what parse_search_page returns for a page: up to two candidates
PageItems == UNION {[1..n -> ListingItems] : n \in 0..2}

\* what scrape_product_page makes of a fetched product page with a title: a
\* dict with the prices it found (a page without title gives None, which is
\* the EnrichNoDetails step)
DetailPages ==
    {[title |-> 1, image_url |-> img,
      deal_price |-> dp, original_price |-> op,
      discount |-> compute_discount(op, dp)] :
        img \in {None, 2}, dp \in {None, 900}, op \in {None, 1000}}

\* what the discovery runs let one session.get produce
DiscoverResponses ==
    {r \in Responses : r.exc \/ (r.status = 200 /\ ~r.captcha)
                          \/ (r.status = 404 /\ ~r.captcha)
                          \/ (r.status = 503 /\ r.captcha)}

\* a loop over the items that does not look at seen_asins
RECURSIVE keep_items_seen_or_not(_, _, _)
keep_items_seen_or_not(items, i, st) ==
    IF i > Len(items) \/ st.full THEN st
    ELSE keep_items_seen_or_not(items, i + 1,
            [seen |-> st.seen \cup {items[i].asin},
             deals |-> Append(st.deals, items[i]),
             kept |-> st.kept + 1,
             full |-> st.kept + 1 >= max_candidates_per_category])

\* lines 416-424: the for loop over the items of one page; st is
\* [seen, deals, kept, full], full when MAX_CANDIDATES_PER_CATEGORY was
\* reached and _scan_category returned
RECURSIVE keep_items(_, _, _)
keep_items(items, i, st) ==
    IF i > Len(items) \/ st.full THEN st
    ELSE IF items[i].asin \in st.seen THEN keep_items(items, i + 1, st)
    ELSE keep_items(items, i + 1,
            [seen |-> st.seen \cup {items[i].asin},
             deals |-> Append(st.deals, items[i]),
             kept |-> st.kept + 1,
             full |-> st.kept + 1 >= max_candidates_per_category])

\* line 376: the candidate has discount, deal price and original price
is_complete(deal) ==
    /\ deal.discount # None
    /\ deal.deal_price # None /\ deal.deal_price # 0
    /\ deal.original_price # None /\ deal.original_price # 0

\* the fields enrich_missing_fields may fill
MergeKeys == {"title", "image_url", "deal_price", "original_price", "discount"}

\* a merge in which the value of the details wins
merge_details_overwrite(deal, details) ==
    [k \in DOMAIN deal |->
        IF k \in MergeKeys /\ details[k] # None
        THEN details[k] ELSE deal[k]]

\* lines 383-385: for k in MergeKeys, a field of the candidate that is
\* None (or "") takes the value of the details when that is not None (or "")
merge_details(deal, details) ==
    [k \in DOMAIN deal |->
        IF k \in MergeKeys /\ deal[k] = None /\ details[k] # None
        THEN details[k] ELSE deal[k]]

\* loops that leave the category after any page
NextPage_next_category ==
    /\ page' = 1 /\ cat' = cat + 1

\* loops that come back to the same page
NextPage_same_page ==
    /\ UNCHANGED <<page, cat>>

\* the for loop of _scan_category moves on to the next page, or the loops
\* of discover_deals to the next category
NextPage ==
    IF page < Categories[cat]
    THEN /\ page' = page + 1 /\ UNCHANGED cat
    ELSE /\ page' = 1 /\ cat' = cat + 1

\* lines 405-406: fetch_html of the next listing page is entered
ScanFetch ==
    /\ dpc = "scan" /\ cat <= Len(Categories)
    /\ dpc' = "fetch_listing"
    /\ FetchBegin
    /\ UNCHANGED <<max_request_retries, wallSeen>>
    /\ UNCHANGED <<stop_on_captcha, max_candidates_per_category, from_cat, max_lookups, scrapes, deals0, cat, page, kept_for_cat, seen_asins, all_deals,
                   eidx, lookups, captcha_hit>>
    /\ UNCHANGED <<varsStore, varsUnits>>

\* lines 407-410: no html. A bot wall with STOP_ON_CAPTCHA raises and
\* discover_deals returns (all_deals, True); otherwise the page is skipped.
ScanPageFailed ==
    /\ dpc = "fetch_listing" /\ fpc = "done" /\ ~fhtml
    /\ fpc' = "idle"
    /\ IF ferr = "captcha" /\ stop_on_captcha
       THEN /\ dpc' = "done"
            /\ captcha_hit' = TRUE
            /\ UNCHANGED <<cat, page, kept_for_cat>>
       ELSE /\ dpc' = "scan"
            /\ NextPage
            /\ kept_for_cat' = IF page < Categories[cat] THEN kept_for_cat ELSE 0
            /\ UNCHANGED captcha_hit
    /\ UNCHANGED <<max_request_retries, attempt, gets, flog, fhtml, ferr, wallSeen>>
    /\ UNCHANGED <<stop_on_captcha, max_candidates_per_category, from_cat, max_lookups, scrapes, deals0, seen_asins, all_deals, eidx, lookups>>
    /\ UNCHANGED <<varsStore, varsUnits>>

\* lines 412-424: the page is parsed into items, the unseen ones are kept
ScanPageParsed(items) ==
    /\ dpc = "fetch_listing" /\ fpc = "done" /\ fhtml
    /\ fpc' = "idle"
    /\ dpc' = "scan"
    /\ LET st == keep_items(items, 1, [seen |-> seen_asins, deals |-> all_deals,
                                       kept |-> kept_for_cat, full |-> FALSE])
       IN /\ seen_asins' = st.seen
          /\ all_deals' = st.deals
          /\ from_cat' = from_cat \o [i \in 1..(Len(st.deals) - Len(all_deals)) |-> cat]
          /\ IF st.full
             THEN /\ page' = 1 /\ cat' = cat + 1 /\ kept_for_cat' = 0
             ELSE /\ NextPage
                  /\ kept_for_cat' = IF page < Categories[cat] THEN st.kept ELSE 0
    /\ UNCHANGED <<max_request_retries, attempt, gets, flog, fhtml, ferr, wallSeen>>
    /\ UNCHANGED <<stop_on_captcha, max_candidates_per_category, max_lookups, scrapes, deals0, eidx, lookups, captcha_hit>>
    /\ UNCHANGED <<varsStore, varsUnits>>

\* line 439: every category is scanned, enrich_missing_fields is entered
ScanDone ==
    /\ dpc = "scan" /\ cat > Len(Categories)
    /\ dpc' = "enrich"
    /\ eidx' = 1
    /\ lookups' = 0
    /\ scrapes' = 0
    /\ deals0' = all_deals
    /\ UNCHANGED <<stop_on_captcha, max_candidates_per_category, from_cat, max_lookups, cat, page, kept_for_cat, seen_asins, all_deals,
                   captcha_hit>>
    /\ UNCHANGED <<varsStore, varsFetch, varsUnits>>

\* lines 372-374 and 440: the loop is exhausted or the quota is used up;
\* discover_deals returns (all_deals, False)
EnrichReturn ==
    /\ dpc = "enrich"
    /\ eidx > Len(all_deals) \/ lookups >= max_lookups
    /\ dpc' = "done"
    /\ captcha_hit' = FALSE
    /\ UNCHANGED <<stop_on_captcha, max_candidates_per_category, from_cat, max_lookups, scrapes, deals0, cat, page, kept_for_cat, seen_asins, all_deals,
                   eidx, lookups>>
    /\ UNCHANGED <<varsStore, varsFetch, varsUnits>>

\* lines 376-377: the candidate is complete, continue
EnrichSkipComplete ==
    /\ dpc = "enrich"
    /\ eidx <= Len(all_deals) /\ lookups < max_lookups
    /\ is_complete(all_deals[eidx])
    /\ eidx' = eidx + 1
    /\ UNCHANGED <<stop_on_captcha, max_candidates_per_category, from_cat, max_lookups, scrapes, deals0, dpc, cat, page, kept_for_cat, seen_asins, all_deals,
                   lookups, captcha_hit>>
    /\ UNCHANGED <<varsStore, varsFetch, varsUnits>>

\* lines 379, 293: scrape_product_page enters fetch_html of the product page
EnrichFetch ==
    /\ dpc = "enrich"
    /\ eidx <= Len(all_deals) /\ lookups < max_lookups
    /\ ~is_complete(all_deals[eidx])
    /\ dpc' = "fetch_detail"
    /\ FetchBegin
    /\ UNCHANGED <<max_request_retries, wallSeen>>
    /\ scrapes' = scrapes + 1
    /\ UNCHANGED <<stop_on_captcha, max_candidates_per_category, from_cat, max_lookups, deals0, cat, page, kept_for_cat, seen_asins, all_deals,
                   eidx, lookups, captcha_hit>>
    /\ UNCHANGED <<varsStore, varsUnits>>

\* lines 294-295, 355-356, 380-381: no html (whatever the error_reason) or
\* a page without title: scrape_product_page returns None, continue
EnrichNoDetails ==
    /\ dpc = "fetch_detail" /\ fpc = "done"
    /\ fpc' = "idle"
    /\ dpc' = "enrich"
    /\ eidx' = eidx + 1
    /\ UNCHANGED <<max_request_retries, attempt, gets, flog, fhtml, ferr, wallSeen>>
    /\ UNCHANGED <<stop_on_captcha, max_candidates_per_category, from_cat, max_lookups, scrapes, deals0, cat, page, kept_for_cat, seen_asins, all_deals,
                   lookups, captcha_hit>>
    /\ UNCHANGED <<varsStore, varsUnits>>

\* lines 383-387: the missing fields are filled, the lookup is counted
EnrichMerge(details) ==
    /\ dpc = "fetch_detail" /\ fpc = "done" /\ fhtml
    /\ fpc' = "idle"
    /\ dpc' = "enrich"
    /\ all_deals' = [all_deals EXCEPT ![eidx] = merge_details(@, details)]
    /\ lookups' = lookups + 1
    /\ eidx' = eidx + 1
    /\ UNCHANGED <<max_request_retries, attempt, gets, flog, fhtml, ferr, wallSeen>>
    /\ UNCHANGED <<stop_on_captcha, max_candidates_per_category, from_cat, max_lookups, scrapes, deals0, cat, page, kept_for_cat, seen_asins, captcha_hit>>
    /\ UNCHANGED <<varsStore, varsUnits>>

InitDiscover ==
    /\ IdleStoreVars
    /\ IdleUnitVars
    /\ max_request_retries \in 1..DiscoverCeiling
    /\ fpc = "idle"
    /\ attempt = 0
    /\ gets = 0
    /\ flog = <<>>
    /\ fhtml = FALSE
    /\ ferr = "none"
    /\ wallSeen = FALSE
    /\ stop_on_captcha \in BOOLEAN
    /\ max_candidates_per_category = MAX_CANDIDATES_PER_CATEGORY
    /\ from_cat = <<>>
    /\ dpc = "scan"
    /\ cat = 1
    /\ page = 1
    /\ kept_for_cat = 0
    /\ seen_asins = {}
    /\ all_deals = <<>>
    /\ eidx = 1
    /\ lookups = 0
    /\ max_lookups = MAX_LOOKUPS
    /\ scrapes = 0
    /\ deals0 = <<>>
    /\ captcha_hit = FALSE

NextDiscover ==
    \/ ScanFetch
    \/ ScanPageFailed
    \/ \E items \in PageItems : ScanPageParsed(items)
    \/ ScanDone
    \/ EnrichReturn
    \/ EnrichSkipComplete
    \/ EnrichFetch
    \/ EnrichNoDetails
    \/ \E details \in DetailPages : EnrichMerge(details)
    \/ \E r \in DiscoverResponses : FetchNetworkError(r)
    \/ \E r \in DiscoverResponses : FetchCaptcha(r)
    \/ \E r \in DiscoverResponses : FetchHttpError(r)
    \/ \E r \in DiscoverResponses : FetchOk(r)
    \/ FetchExhausted

SpecDiscover == InitDiscover /\ [][NextDiscover]_vars

\* ------------------------------------------------------------------ scraper.py: enrich_missing_fields alone

\* largest max_lookups that enrich_missing_fields is called with
MaxLookupsArg == 1

\* the lists enrich_missing_fields is called with: what _scan_category
\* collected, candidates with pairwise different ids (line 418)
DealLists ==
    {l \in UNION {[1..n -> CandidateItems] : n \in 0..Cardinality(Asins)} :
        \A i, j \in DOMAIN l : i # j => l[i].asin # l[j].asin}

\* enrich_missing_fields(deals, max_lookups) has just been called (line 439)
InitEnrich ==
    /\ IdleStoreVars
    /\ IdleUnitVars
    /\ max_request_retries \in 1..DiscoverCeiling
    /\ fpc = "idle"
    /\ attempt = 0
    /\ gets = 0
    /\ flog = <<>>
    /\ fhtml = FALSE
    /\ ferr = "none"
    /\ wallSeen = FALSE
    /\ stop_on_captcha \in BOOLEAN
    /\ max_candidates_per_category = MAX_CANDIDATES_PER_CATEGORY
    /\ dpc = "enrich"
    /\ cat = Len(Categories) + 1
    /\ page = 1
    /\ kept_for_cat = 0
    /\ all_deals \in DealLists
    /\ seen_asins = {all_deals[i].asin : i \in DOMAIN all_deals}
    /\ from_cat = [i \in DOMAIN all_deals |-> 1]
    /\ deals0 = all_deals
    /\ eidx = 1
    /\ lookups = 0
    /\ max_lookups \in 0..MaxLookupsArg
    /\ scrapes = 0
    /\ captcha_hit = FALSE

NextEnrich ==
    \/ EnrichReturn
    \/ EnrichSkipComplete
    \/ EnrichFetch
    \/ EnrichNoDetails
    \/ \E details \in DetailPages : EnrichMerge(details)
    \/ \E r \in DiscoverResponses : FetchNetworkError(r)
    \/ \E r \in DiscoverResponses : FetchCaptcha(r)
    \/ \E r \in DiscoverResponses : FetchHttpError(r)
    \/ \E r \in DiscoverResponses : FetchOk(r)
    \/ FetchExhausted

SpecEnrich == InitEnrich /\ [][NextEnrich]_vars

\* ------------------------------------------------------------------ scraper.py: parse_search_page

\* a result block of a listing page, as the helpers of parse_search_page
\* read it: data-asin (None when it is not a 10-character id), the sponsored
\* markers, the title, the image, and the prices _extract_search_prices
\* returns: selling from the a-price span, reference from the a-text-price
\* (strike-through) span
Blocks ==
    [asin : Asins \cup {None}, sponsored : BOOLEAN, title : {None, 1},
     image_url : {None, 1}, selling : {None, 900, 1000},
     reference : {None, 900, 1000}]

\* lines 255-283: what one block adds to results
parse_block(b) ==
    IF b.asin = None THEN <<>>
    ELSE IF b.sponsored THEN <<>>
    ELSE IF b.title = None THEN <<>>
    ELSE << [asin |-> b.asin, title |-> b.title, image_url |-> b.image_url,
             deal_price |-> b.selling, original_price |-> b.reference,
             discount |-> compute_discount(b.reference, b.selling)] >>

\* one turn of the for loop of parse_search_page
ParseBlock ==
    /\ ps_pc = "idle"
    /\ ps_pc' = "done"
    /\ ps_results' = parse_block(ps_block)
    /\ UNCHANGED ps_block
    /\ UNCHANGED <<varsStore, varsFetch, varsDisc, varsCalc, varsSel, varsSend>>
    /\ UNCHANGED <<varsRun, varsConc, varsSkip>>

InitParse ==
    /\ IdleStoreVars
    /\ IdleFetchVars
    /\ IdleDiscVars
    /\ IdleCalcVars
    /\ IdleSelVars
    /\ IdleSendVars
    /\ IdleRunVars
    /\ IdleConcVars
    /\ IdleSkipVars
    /\ ps_pc = "idle"
    /\ ps_block \in Blocks
    /\ ps_results = <<>>

NextParse == ParseBlock

SpecParse == InitParse /\ [][NextParse]_vars

\* ------------------------------------------------------------------ run_once.py: choose_discount_threshold, filter

\* longest pool of candidates that is explored
MaxPool == 3

\* candidates as discover_deals returns them (the fields the selection
\* reads): well-formed ones at 60, 50 and 45 percent, one without original
\* price and discount, and one that kept its listing price 1000 and took
\* original price and discount from its product page (lines 383-385)
SelItems ==
    { [discount |-> 60, deal_price |-> 400, original_price |-> 1000],
      [discount |-> 50, deal_price |-> 500, original_price |-> 1000],
      [discount |-> 45, deal_price |-> 550, original_price |-> 1000],
      [discount |-> None, deal_price |-> 920, original_price |-> None],
      [discount |-> 60, deal_price |-> 1000, original_price |-> 1000] }
Pools == UNION {[1..n -> SelItems] : n \in 0..MaxPool}

\* values of MINIMUM_DISCOUNT, LOWEST_DISCOUNT_FLOOR, DISCOUNT_FALLBACK_STEP
\* and TARGET_DEALS_PER_RUN that the environment sets
Bases == {30, 50, 60}
Floors == {40, 45}
Steps == {1, 5, 20}
Targets == {0, 1, 2}

\* isinstance(d.get("discount"), int)
has_int_discount(d) == d.discount # None

\* line 145: sum(1 for d in deals if ... d["discount"] >= threshold)
count_at_least(ds, t) ==
    Cardinality({i \in DOMAIN ds : has_int_discount(ds[i]) /\ ds[i].discount >= t})

\* a loop that lowers the threshold before it counts
RECURSIVE relax_lower_first(_, _)
relax_lower_first(ds, t) ==
    IF t > lowest_discount_floor
    THEN IF count_at_least(ds, t - discount_fallback_step) >= target_deals_per_run
         THEN t - discount_fallback_step
         ELSE relax_lower_first(ds, t - discount_fallback_step)
    ELSE IF lowest_discount_floor >= t THEN lowest_discount_floor ELSE t

\* lines 144-150: the while loop from threshold t on, and the final max()
RECURSIVE relax(_, _)
relax(ds, t) ==
    IF t > lowest_discount_floor
    THEN IF count_at_least(ds, t) >= target_deals_per_run
         THEN t
         ELSE relax(ds, t - discount_fallback_step)
    ELSE IF lowest_discount_floor >= t THEN lowest_discount_floor ELSE t

\* lines 134-150
choose_discount_threshold(ds) ==
    IF ~enable_dynamic_discount THEN minimum_discount
    ELSE IF \A i \in DOMAIN ds : ~has_int_discount(ds[i]) THEN minimum_discount
    ELSE relax(ds, minimum_discount)

\* a filter that does not compare the two prices
passes_filter_any_prices(d, t) ==
    /\ has_int_discount(d)
    /\ d.discount >= t
    /\ d.deal_price # None
    /\ d.original_price # None

\* lines 183-187: the condition of the list comprehension
passes_filter(d, t) ==
    /\ has_int_discount(d)
    /\ d.discount >= t
    /\ d.deal_price # None
    /\ d.original_price # None
    /\ d.original_price > d.deal_price

\* line 169: threshold = choose_discount_threshold(deals)
SelChoose ==
    /\ sel_pc = "idle"
    /\ sel_pc' = "chosen"
    /\ threshold' = choose_discount_threshold(deals)
    /\ UNCHANGED <<enable_dynamic_discount, minimum_discount, lowest_discount_floor,
                   discount_fallback_step, target_deals_per_run, deals, candidates>>
    /\ UNCHANGED <<varsStore, varsFetch, varsDisc, varsCalc, varsSend, varsMore>>

\* lines 180-188: candidates = [d for d in deals if ...]
SelFilter ==
    /\ sel_pc = "chosen"
    /\ sel_pc' = "filtered"
    /\ candidates' = SelectSeq(deals, LAMBDA d : passes_filter(d, threshold))
    /\ UNCHANGED <<enable_dynamic_discount, minimum_discount, lowest_discount_floor,
                   discount_fallback_step, target_deals_per_run, deals, threshold>>
    /\ UNCHANGED <<varsStore, varsFetch, varsDisc, varsCalc, varsSend, varsMore>>

\* run_bot has the pool of discover_deals in hand (line 167)
InitSelect ==
    /\ IdleStoreVars
    /\ IdleFetchVars
    /\ IdleDiscVars
    /\ IdleMoreVars
    /\ IdleCalcVars
    /\ IdleSendVars
    /\ sel_pc = "idle"
    /\ enable_dynamic_discount \in BOOLEAN
    /\ minimum_discount \in Bases
    /\ lowest_discount_floor \in Floors
    /\ discount_fallback_step \in Steps
    /\ target_deals_per_run \in Targets
    /\ deals \in Pools
    /\ threshold = 0
    /\ candidates = <<>>

NextSelect == SelChoose \/ SelFilter

SpecSelect == InitSelect /\ [][NextSelect]_vars

\* ------------------------------------------------------------------ run_once.py: send_telegram_message

\* line 67: for attempt in range(1, 4)
TG_ATTEMPTS == 3

\* what one session.post can produce: a requests.RequestException (exc) or
\* a response with a status
TgStatuses == {200, 400, 500}
TgResponses ==
    {[exc |-> TRUE, status |-> 0]} \cup [exc : {FALSE}, status : TgStatuses]

\* a text post that reports success whatever the status
SendTextOkAnyStatus(r) ==
    /\ tg_pc = "loop" /\ tg_attempt < TG_ATTEMPTS
    /\ ~tg_image_url
    /\ ~r.exc
    /\ tg_attempt' = tg_attempt + 1
    /\ tg_log' = Append(tg_log, [kind |-> "text", exc |-> r.exc, status |-> r.status])
    /\ tg_pc' = "done"
    /\ tg_ret' = TRUE
    /\ UNCHANGED tg_image_url
    /\ UNCHANGED <<varsStore, varsFetch, varsDisc, varsCalc, varsSel, varsMore>>

\* the caller enters send_telegram_message(text, image_url, button_url)
SendCall ==
    /\ tg_pc = "idle"
    /\ tg_pc' = "loop"
    /\ tg_attempt' = 0
    /\ tg_log' = <<>>
    /\ tg_ret' = FALSE
    /\ UNCHANGED tg_image_url
    /\ UNCHANGED <<varsStore, varsFetch, varsDisc, varsCalc, varsSel, varsMore>>

\* lines 69-73, 81: sendPhoto answers 200, return True
SendPhotoOk(r) ==
    /\ tg_pc = "loop" /\ tg_attempt < TG_ATTEMPTS
    /\ tg_image_url
    /\ ~r.exc /\ r.status = 200
    /\ tg_attempt' = tg_attempt + 1
    /\ tg_log' = Append(tg_log, [kind |-> "photo", exc |-> r.exc, status |-> r.status])
    /\ tg_pc' = "done"
    /\ tg_ret' = TRUE
    /\ UNCHANGED tg_image_url
    /\ UNCHANGED <<varsStore, varsFetch, varsDisc, varsCalc, varsSel, varsMore>>

\* lines 69-79: sendPhoto answers another status: image_url = None, sleep,
\* continue
SendPhotoFailed(r) ==
    /\ tg_pc = "loop" /\ tg_attempt < TG_ATTEMPTS
    /\ tg_image_url
    /\ ~r.exc /\ r.status # 200
    /\ tg_attempt' = tg_attempt + 1
    /\ tg_log' = Append(tg_log, [kind |-> "photo", exc |-> r.exc, status |-> r.status])
    /\ tg_image_url' = FALSE
    /\ UNCHANGED <<tg_pc, tg_ret>>
    /\ UNCHANGED <<varsStore, varsFetch, varsDisc, varsCalc, varsSel, varsMore>>

\* lines 83-87: sendMessage answers 200, return True
SendTextOk(r) ==
    /\ tg_pc = "loop" /\ tg_attempt < TG_ATTEMPTS
    /\ ~tg_image_url
    /\ ~r.exc /\ r.status = 200
    /\ tg_attempt' = tg_attempt + 1
    /\ tg_log' = Append(tg_log, [kind |-> "text", exc |-> r.exc, status |-> r.status])
    /\ tg_pc' = "done"
    /\ tg_ret' = TRUE
    /\ UNCHANGED tg_image_url
    /\ UNCHANGED <<varsStore, varsFetch, varsDisc, varsCalc, varsSel, varsMore>>

\* lines 83-89, 93: sendMessage answers another status: log, sleep, next turn
SendTextFailed(r) ==
    /\ tg_pc = "loop" /\ tg_attempt < TG_ATTEMPTS
    /\ ~tg_image_url
    /\ ~r.exc /\ r.status # 200
    /\ tg_attempt' = tg_attempt + 1
    /\ tg_log' = Append(tg_log, [kind |-> "text", exc |-> r.exc, status |-> r.status])
    /\ UNCHANGED <<tg_pc, tg_ret, tg_image_url>>
    /\ UNCHANGED <<varsStore, varsFetch, varsDisc, varsCalc, varsSel, varsMore>>

\* lines 90-93: session.post (sendPhoto or sendMessage) raises
\* RequestException: log, sleep, next turn; image_url stays as it is
SendRaised(r) ==
    /\ tg_pc = "loop" /\ tg_attempt < TG_ATTEMPTS
    /\ r.exc
    /\ tg_attempt' = tg_attempt + 1
    /\ tg_log' = Append(tg_log, [kind |-> IF tg_image_url THEN "photo" ELSE "text",
                                 exc |-> r.exc, status |-> r.status])
    /\ UNCHANGED <<tg_pc, tg_ret, tg_image_url>>
    /\ UNCHANGED <<varsStore, varsFetch, varsDisc, varsCalc, varsSel, varsMore>>

\* line 95: the loop is exhausted, return False
SendExhausted ==
    /\ tg_pc = "loop" /\ tg_attempt >= TG_ATTEMPTS
    /\ tg_pc' = "done"
    /\ tg_ret' = FALSE
    /\ UNCHANGED <<tg_attempt, tg_image_url, tg_log>>
    /\ UNCHANGED <<varsStore, varsFetch, varsDisc, varsCalc, varsSel, varsMore>>

\* send_telegram_message is about to be called, with or without image URL
InitSend ==
    /\ IdleStoreVars
    /\ IdleFetchVars
    /\ IdleDiscVars
    /\ IdleMoreVars
    /\ IdleCalcVars
    /\ IdleSelVars
    /\ tg_pc = "idle"
    /\ tg_attempt = 0
    /\ tg_image_url \in BOOLEAN
    /\ tg_log = <<>>
    /\ tg_ret = FALSE

NextSend ==
    \/ SendCall
    \/ \E r \in TgResponses : SendPhotoOk(r)
    \/ \E r \in TgResponses : SendPhotoFailed(r)
    \/ \E r \in TgResponses : SendTextOk(r)
    \/ \E r \in TgResponses : SendTextFailed(r)
    \/ \E r \in TgResponses : SendRaised(r)
    \/ SendExhausted

SpecSend == InitSend /\ [][NextSend]_vars

\* ------------------------------------------------------------------ run_once.py: run_bot, one whole run

\* config.VALUE_ADD_CONTENT_FREQUENCY, set through the environment (default 10)
VALUE_ADD_CONTENT_FREQUENCY == 1
\* config.MAX_REQUEST_RETRIES of the whole runs
RunCeiling == 1

\* lines 102-112: format_message returns a text (TRUE) or None (FALSE)
format_message(deal) ==
    /\ deal.asin # None /\ deal.title # None
    /\ deal.deal_price # None /\ deal.original_price # None
    /\ deal.discount # None
    /\ ~(deal.original_price <= deal.deal_price)

\* lines 190-193: _sort_key(d) = (disc, savings)
sort_key(d) ==
    << IF d.discount = None THEN 0 ELSE d.discount,
       (IF d.original_price = None THEN 0 ELSE d.original_price)
           - (IF d.deal_price = None THEN 0 ELSE d.deal_price) >>

\* the order of Python tuples: k1 < k2
key_less(k1, k2) == k1[1] < k2[1] \/ (k1[1] = k2[1] /\ k1[2] < k2[2])

\* a sort that puts the smallest key first
RECURSIVE sort_ascending(_)
sort_ascending(s) ==
    IF s = <<>> THEN <<>>
    ELSE LET rest == sort_ascending(Tail(s))
             x == Head(s)
             n == Cardinality({i \in DOMAIN rest : key_less(sort_key(rest[i]), sort_key(x))})
         IN SubSeq(rest, 1, n) \o <<x>> \o SubSeq(rest, n + 1, Len(rest))

\* line 195: candidates.sort(key=_sort_key, reverse=True): largest key
\* first, candidates of equal key in the order they had
RECURSIVE sort_candidates(_)
sort_candidates(s) ==
    IF s = <<>> THEN <<>>
    ELSE LET rest == sort_candidates(Tail(s))
             x == Head(s)
             n == Cardinality({i \in DOMAIN rest : key_less(sort_key(x), sort_key(rest[i]))})
         IN SubSeq(rest, 1, n) \o <<x>> \o SubSeq(rest, n + 1, Len(rest))

\* a test of the limit that lets one more post through
limit_reached_after(p) == p > MAX_POSTS_PER_RUN

\* line 200: posted >= config.MAX_POSTS_PER_RUN
limit_reached(p) == p >= MAX_POSTS_PER_RUN

\* line 231: a shopping tip is due after this post
tip_due(p) ==
    VALUE_ADD_CONTENT_FREQUENCY > 0 /\ p % VALUE_ADD_CONTENT_FREQUENCY = 0

\* lines 216-221: posted after send_telegram_message returned ok
next_posted(p, ok) == IF ok THEN p + 1 ELSE p

\* lines 154-156: no token, return 2
PipeNoToken ==
    /\ ppc = "idle" /\ ~has_token
    /\ ppc' = "exited"
    /\ exit_code' = 2
    /\ UNCHANGED <<has_token, cidx, rlog, db_before>>
    /\ UNCHANGED <<varsStore, varsFetch, varsDisc, varsCalc, varsSel, varsSend,
                   varsParse, varsConc, varsSkip>>

\* lines 158-161: initialize_database() prunes the store d hours after the
\* store was last written, discover_deals() is entered
PipeStart(d) ==
    /\ ppc = "idle" /\ has_token
    /\ ppc' = "discover"
    /\ now' = now + d
    /\ db' = cleanup_old_records(db, now')
    /\ db_before' = db
    /\ dpc' = "scan"
    /\ UNCHANGED <<runs, rpc, visited, posted, lastEvent, posts>>
    /\ UNCHANGED <<stop_on_captcha, max_candidates_per_category, from_cat, cat, page,
                   kept_for_cat, seen_asins, all_deals, eidx, lookups, max_lookups,
                   scrapes, deals0, captcha_hit>>
    /\ UNCHANGED <<has_token, cidx, exit_code, rlog>>
    /\ UNCHANGED <<varsFetch, varsCalc, varsSel, varsSend, varsParse, varsConc, varsSkip>>

\* a run_bot that does not look at captcha_hit
PipeCaptcha_ignored ==
    /\ ppc = "discover" /\ dpc = "done" /\ captcha_hit
    /\ ppc' = "select"
    /\ deals' = all_deals
    /\ sel_pc' = "idle"
    /\ UNCHANGED <<enable_dynamic_discount, minimum_discount, lowest_discount_floor,
                   discount_fallback_step, target_deals_per_run, threshold, candidates>>
    /\ UNCHANGED <<has_token, cidx, exit_code, rlog, db_before>>
    /\ UNCHANGED <<varsStore, varsFetch, varsDisc, varsCalc, varsSend, varsParse, varsConc, varsSkip>>

\* lines 163-165: captcha_hit, return 0
PipeCaptcha ==
    /\ ppc = "discover" /\ dpc = "done" /\ captcha_hit
    /\ ppc' = "exited"
    /\ exit_code' = 0
    /\ UNCHANGED <<has_token, cidx, rlog, db_before>>
    /\ UNCHANGED <<varsStore, varsFetch, varsDisc, varsCalc, varsSel, varsSend,
                   varsParse, varsConc, varsSkip>>

\* lines 161, 167: discover_deals returned (deals, False); its locals and
\* those of the last fetch_html call are gone
PipeDeals ==
    /\ ppc = "discover" /\ dpc = "done" /\ ~captcha_hit
    /\ ppc' = "select"
    /\ deals' = all_deals
    /\ sel_pc' = "idle"
    /\ dpc' = "returned"
    /\ cat' = 1 /\ page' = 1 /\ kept_for_cat' = 0 /\ seen_asins' = {}
    /\ all_deals' = <<>> /\ from_cat' = <<>> /\ deals0' = <<>>
    /\ eidx' = 1 /\ lookups' = 0 /\ scrapes' = 0
    /\ fpc' = "idle" /\ attempt' = 0 /\ gets' = 0 /\ flog' = <<>>
    /\ fhtml' = FALSE /\ ferr' = "none"
    /\ UNCHANGED <<stop_on_captcha, max_candidates_per_category, max_lookups, captcha_hit>>
    /\ UNCHANGED <<max_request_retries, wallSeen>>
    /\ UNCHANGED <<enable_dynamic_discount, minimum_discount, lowest_discount_floor,
                   discount_fallback_step, target_deals_per_run, threshold, candidates>>
    /\ UNCHANGED <<has_token, cidx, exit_code, rlog, db_before>>
    /\ UNCHANGED <<varsStore, varsCalc, varsSend, varsParse, varsConc, varsSkip>>

\* lines 195-198: the candidates are sorted, posted = 0, the loop is entered
PipeSort ==
    /\ ppc = "select" /\ sel_pc = "filtered"
    /\ ppc' = "dispatch"
    /\ sel_pc' = "sorted"
    /\ candidates' = sort_candidates(candidates)
    /\ cidx' = 1
    /\ posted' = 0
    /\ UNCHANGED <<enable_dynamic_discount, minimum_discount, lowest_discount_floor,
                   discount_fallback_step, target_deals_per_run, deals, threshold>>
    /\ UNCHANGED <<now, db, runs, rpc, visited, lastEvent, posts>>
    /\ UNCHANGED <<has_token, exit_code, rlog, db_before>>
    /\ UNCHANGED <<varsFetch, varsDisc, varsCalc, varsSend, varsParse, varsConc, varsSkip>>

\* lines 199, 238-239: the for loop is exhausted, return 0
PipeEnd ==
    /\ ppc = "dispatch" /\ cidx > Len(candidates)
    /\ ppc' = "exited"
    /\ exit_code' = 0
    /\ UNCHANGED <<has_token, cidx, rlog, db_before>>
    /\ UNCHANGED <<varsStore, varsFetch, varsDisc, varsCalc, varsSel, varsSend,
                   varsParse, varsConc, varsSkip>>

\* lines 200-201, 238-239: the limit is reached, break, return 0
PipeBreak ==
    /\ ppc = "dispatch" /\ cidx <= Len(candidates)
    /\ limit_reached(posted)
    /\ ppc' = "exited"
    /\ exit_code' = 0
    /\ UNCHANGED <<has_token, cidx, rlog, db_before>>
    /\ UNCHANGED <<varsStore, varsFetch, varsDisc, varsCalc, varsSel, varsSend,
                   varsParse, varsConc, varsSkip>>

\* lines 206-212: should_skip_deal says skip, or format_message gives no
\* text: continue
PipeContinue ==
    /\ ppc = "dispatch" /\ cidx <= Len(candidates)
    /\ ~limit_reached(posted)
    /\ LET deal == candidates[cidx]
           skip == should_skip_deal(db, deal.asin, deal.deal_price, now)
       IN /\ skip \/ ~format_message(deal)
          /\ rlog' = Append(rlog, [kind |-> IF skip THEN "skipped" ELSE "no_message",
                                   asin |-> deal.asin, idx |-> cidx])
    /\ cidx' = cidx + 1
    /\ UNCHANGED <<ppc, has_token, exit_code, db_before>>
    /\ UNCHANGED <<varsStore, varsFetch, varsDisc, varsCalc, varsSel, varsSend,
                   varsParse, varsConc, varsSkip>>

\* line 215: send_telegram_message(msg, image_url=deal.get("image_url"),
\* button_url=aff_link) is entered
PipeSend ==
    /\ ppc = "dispatch" /\ cidx <= Len(candidates)
    /\ ~limit_reached(posted)
    /\ ~should_skip_deal(db, candidates[cidx].asin, candidates[cidx].deal_price, now)
    /\ format_message(candidates[cidx])
    /\ ppc' = "sending"
    /\ tg_pc' = "loop"
    /\ tg_attempt' = 0
    /\ tg_log' = <<>>
    /\ tg_ret' = FALSE
    /\ tg_image_url' = (candidates[cidx].image_url # None)
    /\ UNCHANGED <<has_token, cidx, exit_code, rlog, db_before>>
    /\ UNCHANGED <<varsStore, varsFetch, varsDisc, varsCalc, varsSel, varsParse, varsConc, varsSkip>>

\* lines 216-218: send_telegram_message returned False: continue (the
\* locals of the call are gone)
PipeSendFailed ==
    /\ ppc = "sending" /\ tg_pc = "done" /\ ~tg_ret
    /\ ppc' = "dispatch"
    /\ tg_pc' = "idle"
    /\ tg_attempt' = 0 /\ tg_log' = <<>> /\ tg_ret' = FALSE /\ tg_image_url' = FALSE
    /\ db' = after_send(db, candidates[cidx], tg_ret, now)
    /\ posted' = next_posted(posted, tg_ret)
    /\ rlog' = Append(rlog, [kind |-> "failed", asin |-> candidates[cidx].asin,
                             idx |-> cidx])
    /\ cidx' = cidx + 1
    /\ UNCHANGED <<now, runs, rpc, visited, lastEvent, posts>>
    /\ UNCHANGED <<has_token, exit_code, db_before>>
    /\ UNCHANGED <<varsFetch, varsDisc, varsCalc, varsSel, varsParse, varsConc, varsSkip>>

\* lines 220-236: send_telegram_message returned True: the post is recorded
\* and counted; when a tip is due, send_telegram_message(tip_msg) is entered
PipeSent ==
    /\ ppc = "sending" /\ tg_pc = "done" /\ tg_ret
    /\ db' = after_send(db, candidates[cidx], tg_ret, now)
    /\ posted' = next_posted(posted, tg_ret)
    /\ rlog' = Append(rlog, [kind |-> "posted", asin |-> candidates[cidx].asin,
                             idx |-> cidx])
    /\ IF tip_due(posted')
       THEN /\ ppc' = "tip"
            /\ tg_pc' = "loop"
            /\ tg_attempt' = 0
            /\ tg_log' = <<>>
            /\ tg_ret' = FALSE
            /\ tg_image_url' = FALSE
            /\ UNCHANGED cidx
       ELSE /\ ppc' = "dispatch"
            /\ tg_pc' = "idle"
            /\ tg_attempt' = 0 /\ tg_log' = <<>> /\ tg_ret' = FALSE
            /\ tg_image_url' = FALSE
            /\ cidx' = cidx + 1
    /\ UNCHANGED <<now, runs, rpc, visited, lastEvent, posts>>
    /\ UNCHANGED <<has_token, exit_code, db_before>>
    /\ UNCHANGED <<varsFetch, varsDisc, varsCalc, varsSel, varsParse, varsConc, varsSkip>>

\* lines 234-236: send_telegram_message(tip_msg) returned; what it returned
\* is not looked at
PipeTipSent ==
    /\ ppc = "tip" /\ tg_pc = "done"
    /\ ppc' = "dispatch"
    /\ tg_pc' = "idle"
    /\ rlog' = Append(rlog, [kind |-> IF tg_ret THEN "tip" ELSE "tip_failed",
                             asin |-> None, idx |-> cidx])
    /\ cidx' = cidx + 1
    /\ tg_attempt' = 0 /\ tg_log' = <<>> /\ tg_ret' = FALSE /\ tg_image_url' = FALSE
    /\ UNCHANGED <<has_token, exit_code, db_before>>
    /\ UNCHANGED <<varsStore, varsFetch, varsDisc, varsCalc, varsSel, varsParse, varsConc, varsSkip>>

\* the result blocks of the whole runs: cards with the reference price 1000
RunItems == {it \in ListingItems : it.original_price = 1000}
RunPageItems == UNION {[1..n -> RunItems] : n \in 0..2}
\* the product pages of the whole runs: both prices, with or without image
RunDetailPages ==
    {dt \in DetailPages : dt.deal_price = 900 /\ dt.original_price = 1000}
\* the stores a run finds: empty, a document of the previous version of the
\* bot, or the record of a post of id 1 at 920
RunStores == {<<>>, <<LegacyDoc>>,
              record_posted_deal(<<>>, [asin |-> 1, deal_price |-> 920], 0)}
\* hours since the store was last written
RunDelays == {1, 337}
\* values of config.MAX_CANDIDATES_PER_CATEGORY: one that a page of two
\* cards exceeds, and the default
RunCaps == {1, MAX_CANDIDATES_PER_CATEGORY}

InitRun ==
    /\ now = 0
    /\ db \in RunStores
    /\ runs = 0
    /\ rpc = "idle"
    /\ visited = {}
    /\ posted = 0
    /\ lastEvent = [kind |-> "none", asin |-> None]
    /\ posts = [a \in Asins |-> <<>>]
    /\ max_request_retries = RunCeiling
    /\ fpc = "idle"
    /\ attempt = 0
    /\ gets = 0
    /\ flog = <<>>
    /\ fhtml = FALSE
    /\ ferr = "none"
    /\ wallSeen = FALSE
    /\ stop_on_captcha = TRUE
    /\ max_candidates_per_category \in RunCaps
    /\ from_cat = <<>>
    /\ dpc = "idle"
    /\ cat = 1
    /\ page = 1
    /\ kept_for_cat = 0
    /\ seen_asins = {}
    /\ all_deals = <<>>
    /\ eidx = 1
    /\ lookups = 0
    /\ max_lookups = MAX_LOOKUPS
    /\ scrapes = 0
    /\ deals0 = <<>>
    /\ captcha_hit = FALSE
    /\ IdleCalcVars
    /\ IdleSendVars
    /\ IdleParseVars
    /\ IdleConcVars
    /\ IdleSkipVars
    /\ sel_pc = "wait"
    /\ enable_dynamic_discount = TRUE
    /\ minimum_discount = 10
    /\ lowest_discount_floor = 5
    /\ discount_fallback_step = 5
    /\ target_deals_per_run = 2
    /\ deals = <<>>
    /\ threshold = 0
    /\ candidates = <<>>
    /\ ppc = "idle"
    /\ has_token \in BOOLEAN
    /\ cidx = 1
    /\ exit_code = None
    /\ rlog = <<>>
    /\ db_before = <<>>

NextRun ==
    \/ PipeNoToken
    \/ \E d \in RunDelays : PipeStart(d)
    \/ ScanFetch
    \/ ScanPageFailed
    \/ \E items \in RunPageItems : ScanPageParsed(items)
    \/ ScanDone
    \/ EnrichReturn
    \/ EnrichSkipComplete
    \/ EnrichFetch
    \/ EnrichNoDetails
    \/ \E details \in RunDetailPages : EnrichMerge(details)
    \/ \E r \in DiscoverResponses : FetchNetworkError(r)
    \/ \E r \in DiscoverResponses : FetchCaptcha(r)
    \/ \E r \in DiscoverResponses : FetchHttpError(r)
    \/ \E r \in DiscoverResponses : FetchOk(r)
    \/ FetchExhausted
    \/ PipeCaptcha
    \/ PipeDeals
    \/ SelChoose
    \/ SelFilter
    \/ PipeSort
    \/ PipeEnd
    \/ PipeBreak
    \/ PipeContinue
    \/ PipeSend
    \/ \E r \in TgResponses : SendPhotoOk(r)
    \/ \E r \in TgResponses : SendPhotoFailed(r)
    \/ \E r \in TgResponses : SendTextOk(r)
    \/ \E r \in TgResponses : SendTextFailed(r)
    \/ \E r \in TgResponses : SendRaised(r)
    \/ SendExhausted
    \/ PipeSendFailed
    \/ PipeSent
    \/ PipeTipSent

SpecRun == InitRun /\ [][NextRun]_vars

\* the interpreter keeps running the run: every sleep, session.get and
\* session.post (both with timeouts) comes back
SpecRunFair == SpecRun /\ WF_vars(NextRun)

\* ------------------------------------------------------------------ run_once.py: two runs on one store

\* Two processes run run_bot at the same time on the same db file (nothing
\* in run_once.py or database.py keeps a second process out: no lock file,
\* no lock around lines 206-220).  Each is in its dispatch loop at one
\* candidate; its steps are the calls of lines 206, 215 and 220, and the
\* steps of the two runs interleave.  Each call on the store is one step.
Runs == {1, 2}
ConcDeals == [asin : Asins, deal_price : {920, 1000}]

\* line 206: should_skip_deal(asin, current_price=dp)
ConcCheck(p) ==
    /\ cpc[p] = "check"
    /\ cpc' = [cpc EXCEPT ![p] =
                  IF should_skip_deal(db, cdeal[p].asin, cdeal[p].deal_price, now)
                  THEN "done" ELSE "send"]
    /\ UNCHANGED <<cdeal, cok, cposts>>
    /\ UNCHANGED <<varsStore, varsFetch, varsDisc, varsCalc, varsSel, varsSend,
                   varsParse, varsRun, varsSkip>>

\* lines 215-218: send_telegram_message returns ok
ConcSend(p, ok) ==
    /\ cpc[p] = "send"
    /\ cok' = [cok EXCEPT ![p] = ok]
    /\ cpc' = [cpc EXCEPT ![p] = IF ok THEN "record" ELSE "done"]
    /\ cposts' = IF ok
                 THEN Append(cposts, [run |-> p, asin |-> cdeal[p].asin,
                                      price |-> cdeal[p].deal_price, at |-> now])
                 ELSE cposts
    /\ UNCHANGED cdeal
    /\ UNCHANGED <<varsStore, varsFetch, varsDisc, varsCalc, varsSel, varsSend,
                   varsParse, varsRun, varsSkip>>

\* line 220: record_posted_deal(deal, affiliate_url=aff_link)
ConcRecord(p) ==
    /\ cpc[p] = "record"
    /\ db' = record_posted_deal(db, cdeal[p], now)
    /\ cpc' = [cpc EXCEPT ![p] = "done"]
    /\ UNCHANGED <<cdeal, cok, cposts>>
    /\ UNCHANGED <<now, runs, rpc, visited, posted, lastEvent, posts>>
    /\ UNCHANGED <<varsFetch, varsDisc, varsCalc, varsSel, varsSend, varsParse, varsRun, varsSkip>>

InitConcurrent ==
    /\ now = 1
    /\ db \in RunStores
    /\ runs = 0
    /\ rpc = "idle"
    /\ visited = {}
    /\ posted = 0
    /\ lastEvent = [kind |-> "none", asin |-> None]
    /\ posts = [a \in Asins |-> <<>>]
    /\ IdleFetchVars
    /\ IdleDiscVars
    /\ IdleCalcVars
    /\ IdleSelVars
    /\ IdleSendVars
    /\ IdleParseVars
    /\ IdleRunVars
    /\ IdleSkipVars
    /\ cpc = [p \in Runs |-> "check"]
    /\ cdeal \in [Runs -> ConcDeals]
    /\ cok = [p \in Runs |-> FALSE]
    /\ cposts = <<>>

NextConcurrent ==
    \/ \E p \in Runs : ConcCheck(p)
    \/ \E p \in Runs, ok \in BOOLEAN : ConcSend(p, ok)
    \/ \E p \in Runs : ConcRecord(p)

SpecConcurrent == InitConcurrent /\ [][NextConcurrent]_vars

\* ------------------------------------------------------------------ database.py: should_skip_deal called at will

\* number of should_skip_deal calls between two record_posted_deal calls
MaxCalls == 2
\* number of record_posted_deal calls in one behaviour
MaxRecords == 1

\* a document with last price lp, posted at hour 0
SkipDoc(lp) == [asin |-> 1, last_price |-> lp, last_posted_at |-> 0,
                first_seen_at |-> 0, timestamp |-> None, date |-> None]
\* the stores should_skip_deal is asked about: empty, a document of the
\* previous version of the bot, a document whose last price is missing,
\* not a number, zero, or a price
SkipStores ==
    {<<>>, <<LegacyDoc>>} \cup {<<SkipDoc(lp)>> : lp \in {None, NonNumeric, 0, 920, 1000}}
\* hours since hour 0 at which the calls are made
SkipTimes == {1, 71, 72}
\* hours after now at which the claims ask for a later answer
SkipDelays == {0, 71}
\* the current prices the calls are made with (None: a missing price)
SkipPrices == {None, 0, 900, 920, 1000}

\* a should_skip_deal that stamps the document it looked at
SkipCall_stamping(asin, current_price) ==
    /\ sk_calls < MaxCalls
    /\ sk_calls' = sk_calls + 1
    /\ sk_asin' = asin
    /\ sk_price' = current_price
    /\ sk_ret' = should_skip_deal(db, asin, current_price, now)
    /\ db' = [i \in DOMAIN db |->
                IF db[i].asin = asin THEN [db[i] EXCEPT !.last_posted_at = now]
                ELSE db[i]]
    /\ UNCHANGED sk_records
    /\ UNCHANGED <<now, runs, rpc, visited, posted, lastEvent, posts>>
    /\ UNCHANGED <<varsFetch, varsDisc, varsCalc, varsSel, varsSend,
                   varsParse, varsRun, varsConc>>

\* lines 84-113: should_skip_deal(asin, current_price) is called and
\* returns; db.get (line 91) is the only call on the table
SkipCall(asin, current_price) ==
    /\ sk_calls < MaxCalls
    /\ sk_calls' = sk_calls + 1
    /\ sk_asin' = asin
    /\ sk_price' = current_price
    /\ sk_ret' = should_skip_deal(db, asin, current_price, now)
    /\ UNCHANGED sk_records
    /\ UNCHANGED <<varsStore, varsFetch, varsDisc, varsCalc, varsSel, varsSend,
                   varsParse, varsRun, varsConc>>

\* lines 116-140: record_posted_deal(deal) is called
SkipRecord(deal) ==
    /\ sk_records < MaxRecords
    /\ sk_records' = sk_records + 1
    /\ sk_calls' = 0
    /\ db' = record_posted_deal(db, deal, now)
    /\ UNCHANGED <<sk_asin, sk_price, sk_ret>>
    /\ UNCHANGED <<now, runs, rpc, visited, posted, lastEvent, posts>>
    /\ UNCHANGED <<varsFetch, varsDisc, varsCalc, varsSel, varsSend,
                   varsParse, varsRun, varsConc>>

InitSkip ==
    /\ now \in SkipTimes
    /\ db \in SkipStores
    /\ runs = 0
    /\ rpc = "idle"
    /\ visited = {}
    /\ posted = 0
    /\ lastEvent = [kind |-> "none", asin |-> None]
    /\ posts = [a \in Asins |-> <<>>]
    /\ IdleFetchVars
    /\ IdleDiscVars
    /\ IdleCalcVars
    /\ IdleSelVars
    /\ IdleSendVars
    /\ IdleParseVars
    /\ IdleRunVars
    /\ IdleConcVars
    /\ sk_calls = 0
    /\ sk_records = 0
    /\ sk_asin = None
    /\ sk_price = None
    /\ sk_ret = FALSE

NextSkip ==
    \/ \E a \in Asins \cup {None}, p \in SkipPrices : SkipCall(a, p)
    \/ \E deal \in Deals : SkipRecord(deal)

SpecSkip == InitSkip /\ [][NextSkip]_vars

\* ------------------------------------------------------------------ claims: dedup store

\* cur is at least REPOST_PRICE_DROP_PERCENT percent below prev
PercentBelow(prev, cur) ==
    prev > 0 /\ (prev - cur) * 100 >= REPOST_PRICE_DROP_PERCENT * prev

\* the record of id a in table d (a has one)
RecordOf(d, a) == d[db_get(d, a)]

\* C1: over sequential runs sharing one store (retention 14 days >= cooldown
\* 72 hours), two successive successful posts of the same id are at least
\* POST_COOLDOWN_HOURS apart, or the later price is at least
\* REPOST_PRICE_DROP_PERCENT percent below the price of the previous post.
\* (Time never runs backwards, so this covers any two posts of an id.)
C1_CooldownOrPriceDrop ==
    \A a \in Asins :
        Len(posts[a]) = 2 =>
            \/ posts[a][2].at - posts[a][1].at >= POST_COOLDOWN_HOURS
            \/ PercentBelow(posts[a][1].price, posts[a][2].price)

\* an id was posted twice within the cooldown window, the price having dropped
C1_Witness ==
    \E a \in Asins :
        /\ Len(posts[a]) = 2
        /\ posts[a][2].at - posts[a][1].at < POST_COOLDOWN_HOURS
        /\ posts[a][1].price = 1000 /\ posts[a][2].price = 920

\* C2: a step of run_bot writes a record of an id only when the delivery of
\* that id returned success in that step; a step whose delivery failed
\* leaves the table as it was, and with it every answer of should_skip_deal.
C2_RecordOnlyAfterDelivery ==
    [][/\ \A a \in Asins :
              (\E i \in DOMAIN db' : db'[i].asin = a /\ db'[i] \notin Range(db))
                  => lastEvent' = [kind |-> "sent_ok", asin |-> a]
       /\ lastEvent'.kind = "sent_fail" =>
              /\ db' = db
              /\ \A a \in Asins, p \in QueryPrices, k \in QueryDelays :
                     should_skip_deal(db', a, p, now' + k)
                         = should_skip_deal(db, a, p, now + k)]_vars

\* a delivery failed for an id that has a record, and for one that has none
C2_Witness ==
    /\ lastEvent.kind = "sent_fail"
    /\ db_get(db, lastEvent.asin) # 0
    /\ RecordOf(db, lastEvent.asin).last_price = 1000
    /\ \E b \in Asins : db_get(db, b) = 0

\* C3: for an id whose record has a last price > 0 and for a current price
\* > 0, should_skip_deal is true exactly when the hours since last_posted_at
\* are below POST_COOLDOWN_HOURS and the drop in percent of the last price is
\* below REPOST_PRICE_DROP_PERCENT; e.g. last price 1000 within the cooldown:
\* 960 is skipped, 900 is allowed.
C3_SkipExactlyWithinCooldownWithoutDrop ==
    \A a \in Asins, k \in QueryDelays :
        (db_get(db, a) # 0 /\ RecordOf(db, a).last_price > 0) =>
            LET last == RecordOf(db, a).last_price
                elapsed == (now + k) - RecordOf(db, a).last_posted_at
            IN /\ \A p \in QueryPrices :
                      p > 0 =>
                          should_skip_deal(db, a, p, now + k)
                              = (/\ elapsed < POST_COOLDOWN_HOURS
                                 /\ (last - p) * 100 < REPOST_PRICE_DROP_PERCENT * last)
               /\ (last = 1000 /\ elapsed < POST_COOLDOWN_HOURS) =>
                      /\ should_skip_deal(db, a, 960, now + k)
                      /\ ~should_skip_deal(db, a, 900, now + k)

\* a record with last price 1000, 71 hours old: 960 and 921 are skipped, 920
\* and 900 are allowed, and one hour later everything is allowed
C3_Witness ==
    \E a \in Asins :
        /\ db_get(db, a) # 0
        /\ RecordOf(db, a).last_price = 1000
        /\ now - RecordOf(db, a).last_posted_at = 71
        /\ should_skip_deal(db, a, 960, now)
        /\ should_skip_deal(db, a, 921, now)
        /\ ~should_skip_deal(db, a, 920, now)
        /\ ~should_skip_deal(db, a, 900, now)
        /\ ~should_skip_deal(db, a, 1000, now + 1)

\* C4: should_skip_deal is false for every id without a record, for every
\* price (a missing one too), at every time, in every reachable table.
C4_NoRecordNeverSkipped ==
    \A a \in Asins \cup {None}, p \in QueryPrices, k \in QueryDelays :
        db_search(db, a) = {} => ~should_skip_deal(db, a, p, now + k)

\* pruning removed the record of a posted id while another id has a record
C4_Witness ==
    \E a, b \in Asins :
        /\ posts[a] # <<>> /\ db_search(db, a) = {}
        /\ db_search(db, b) # {}
        /\ ~should_skip_deal(db, a, posts[a][Len(posts[a])].price, now)

\* the first_seen_at of id a in table d
FirstSeen(d, a) == RecordOf(d, a).first_seen_at

\* C5: the table holds at most one record per id; after record_posted_deal
\* it holds exactly one, with first_seen_at set; the same call repeated (at
\* the same time or later) leaves one record and leaves first_seen_at as the
\* first call set it; and no step of run_bot (a post at the same price or
\* at another one) changes the first_seen_at of a record that has one.
C5_OneRecordFirstSeenKept ==
    /\ [](\A a \in Asins : Cardinality(db_search(db, a)) <= 1)
    /\ [](\A deal \in Deals, k \in {0, 1} :
            LET a == deal.asin
                d1 == record_posted_deal(db, deal, now)
                d2 == record_posted_deal(d1, deal, now + k)
            IN /\ Cardinality(db_search(d1, a)) = 1
               /\ FirstSeen(d1, a) # None
               /\ (db_get(db, a) = 0 \/ FirstSeen(db, a) = None) => FirstSeen(d1, a) = now
               /\ Cardinality(db_search(d2, a)) = 1
               /\ Len(d2) = Len(d1)
               /\ FirstSeen(d2, a) = FirstSeen(d1, a))
    /\ [][\A a \in Asins :
            /\ lastEvent' = [kind |-> "sent_ok", asin |-> a] =>
                   Cardinality(db_search(db', a)) = 1
            /\ (db_get(db, a) # 0 /\ db_get(db', a) # 0 /\ FirstSeen(db, a) # None) =>
                   FirstSeen(db', a) = FirstSeen(db, a)]_vars

\* an id was recorded twice: one record, first_seen_at of the first post,
\* price and time of the second
C5_Witness ==
    \E a \in Asins :
        /\ Len(posts[a]) = 2
        /\ Cardinality(db_search(db, a)) = 1
        /\ FirstSeen(db, a) = posts[a][1].at
        /\ RecordOf(db, a).last_posted_at = posts[a][2].at
        /\ posts[a][2].at > posts[a][1].at
        /\ RecordOf(db, a).last_price = posts[a][2].price

\* ------------------------------------------------------------------ claims: fetch_html

\* the body of response r holds a bot-wall marker
HasMarker(r) == ~r.exc /\ r.captcha
\* attempt r failed without a marker: with a status >= 400, with an exception
HttpFailure(r) == ~r.exc /\ ~r.captcha /\ r.status >= 400
NetworkFailure(r) == r.exc
\* attempt r yields a page: status < 400 and no marker
GoodPage(r) == ~r.exc /\ ~r.captcha /\ r.status < 400

C8_ExhaustionNamesTheFailure ==
    (/\ fpc = "done" /\ gets >= 1 /\ gets = max_request_retries
     /\ \A i \in DOMAIN flog : HttpFailure(flog[i]) \/ NetworkFailure(flog[i])) =>
        /\ ~fhtml
        /\ (\A i \in DOMAIN flog : HttpFailure(flog[i])) => ferr = "http"
        /\ (\A i \in DOMAIN flog : NetworkFailure(flog[i])) => ferr = "network"

\* C9: a response with a 4xx status other than 429 (and no marker) is the
\* last request of the call, while after a 429 or 5xx response the loop goes
\* on as long as attempts remain.
C9_ClientErrorIsTerminal ==
    \A i \in DOMAIN flog :
        /\ (HttpFailure(flog[i]) /\ flog[i].status < 500 /\ flog[i].status # 429) =>
               i = Len(flog)
        /\ (HttpFailure(flog[i]) /\ (flog[i].status >= 500 \/ flog[i].status = 429)
              /\ i = Len(flog) /\ i < max_request_retries) =>
               fpc = "loop"

C7_NoGetAfterBotWall ==
    [][(stop_on_captcha /\ wallSeen) => Len(flog') <= Len(flog)]_vars

\* ------------------------------------------------------------------ claims: enrichment

\* C11: one call of enrich_missing_fields(deals, max_lookups) makes at most
\* max_lookups calls of scrape_product_page, the failed ones counted too
C11_FetchesCappedByMaxLookups == scrapes <= max_lookups

\* the candidate lacks deal price, original price or discount
Missing(deal) ==
    deal.deal_price = None \/ deal.original_price = None \/ deal.discount = None

\* C12: enrich_missing_fields (a) never changes a field that was populated
\* before the call, (b) fetches a detail page only for a candidate that
\* lacks deal price, original price or discount, and (c) leaves a candidate
\* that has all three as it was
C12_OnlyMissingFieldsFilled ==
    /\ [](/\ Len(all_deals) = Len(deals0)
          /\ \A i \in DOMAIN deals0 :
                /\ \A k \in DOMAIN deals0[i] :
                      deals0[i][k] # None => all_deals[i][k] = deals0[i][k]
                /\ ~Missing(deals0[i]) => all_deals[i] = deals0[i])
    /\ [][scrapes' # scrapes =>
            /\ eidx \in DOMAIN deals0
            /\ Missing(deals0[eidx])]_vars

\* the call has returned; one candidate had all three fields, another had a
\* deal price of its own, lacked the original price and was filled from a
\* product page
C12_Witness ==
    /\ dpc = "done"
    /\ \E i, j \in DOMAIN deals0 :
        /\ ~Missing(deals0[i])
        /\ deals0[j].deal_price = 920 /\ deals0[j].original_price = None
        /\ all_deals[j].original_price = 1000
        /\ all_deals[j].image_url # deals0[j].image_url

\* ------------------------------------------------------------------ claims: discounts

\* the percentage (original - deal) / original * 100 rounded to the nearest
\* integer, an exact half to the even one (what round() makes of the exact
\* value)
RoundedPercent(original, deal) ==
    LET n == (original - deal) * 100
        q == n \div original
        r == n % original
    IN IF 2 * r < original THEN q
       ELSE IF 2 * r > original THEN q + 1
       ELSE IF q % 2 = 0 THEN q ELSE q + 1

\* the discount of the candidate is the one its own two prices give
OwnDiscount(deal) ==
    IF /\ deal.original_price # None /\ deal.deal_price # None
       /\ deal.original_price > deal.deal_price /\ deal.deal_price > 0
    THEN deal.discount = RoundedPercent(deal.original_price, deal.deal_price)
    ELSE deal.discount = None

\* C13: every candidate discover_deals returns has discount None unless its
\* own original_price > deal_price > 0, and then the discount is the rounded
\* percentage of these two prices
C13_DiscountFromOwnPrices ==
    dpc = "done" => \A i \in DOMAIN all_deals : OwnDiscount(all_deals[i])

\* C14: compute_discount returns None when a price is missing, zero or
\* negative or deal >= original, and else the integer
\* round((original - deal) / original * 100), which lies in 0..100
C14_ComputeDiscountRounds ==
    cd_pc = "done" =>
        IF \/ cd_original = None \/ cd_deal = None
           \/ cd_original <= 0 \/ cd_deal <= 0
           \/ cd_deal >= cd_original
        THEN cd_result = None
        ELSE /\ cd_result = RoundedPercent(cd_original, cd_deal)
             /\ cd_result \in 0..100

\* ------------------------------------------------------------------ claims: threshold and filter

\* number of candidates of the pool with a discount of at least t
CountMeeting(t) ==
    Cardinality({i \in DOMAIN deals : deals[i].discount # None /\ deals[i].discount >= t})

\* the thresholds base, base - step, base - 2 * step, ... above the floor
\* that at least TARGET_DEALS_PER_RUN candidates meet
MetThresholds ==
    {t \in (lowest_discount_floor + 1)..minimum_discount :
        /\ (minimum_discount - t) % discount_fallback_step = 0
        /\ CountMeeting(t) >= target_deals_per_run}

\* C15: with dynamic adjustment enabled, choose_discount_threshold never
\* returns a value below LOWEST_DISCOUNT_FLOOR, whatever the pool, the base,
\* the floor, the step >= 1 and the target count
C15_NeverBelowFloor ==
    (sel_pc # "idle" /\ enable_dynamic_discount /\ discount_fallback_step >= 1)
        => threshold >= lowest_discount_floor

\* C16: with dynamic adjustment enabled, base > floor and step >= 1, when
\* some threshold of the sequence above the floor is met by at least
\* TARGET_DEALS_PER_RUN candidates, the largest such threshold is returned
C16_LargestMetThreshold ==
    (/\ sel_pc # "idle" /\ enable_dynamic_discount
     /\ minimum_discount > lowest_discount_floor /\ discount_fallback_step >= 1
     /\ MetThresholds # {})
        => /\ threshold \in MetThresholds
           /\ \A t \in MetThresholds : t <= threshold

\* the threshold was relaxed: the base is not met, a lower threshold of the
\* sequence is, and that one was returned
C16_Witness ==
    /\ sel_pc = "filtered" /\ enable_dynamic_discount
    /\ minimum_discount = 60 /\ lowest_discount_floor = 40
    /\ discount_fallback_step = 5 /\ target_deals_per_run = 2
    /\ MetThresholds # {} /\ minimum_discount \notin MetThresholds
    /\ threshold = 50
    /\ Len(candidates) = 2

\* C17: with dynamic adjustment enabled, base >= floor and step >= 1, when
\* no threshold of the sequence above the floor is met by at least
\* TARGET_DEALS_PER_RUN candidates (a pool without any discount included),
\* exactly the floor is returned
C17_FloorWhenTargetNotReached ==
    (/\ sel_pc # "idle" /\ enable_dynamic_discount
     /\ minimum_discount >= lowest_discount_floor /\ discount_fallback_step >= 1
     /\ MetThresholds = {})
        => threshold = lowest_discount_floor

\* the candidate has an integer discount of at least t, both prices and
\* original_price > deal_price
QualifiesAt(d, t) ==
    /\ d.discount # None /\ d.discount >= t
    /\ d.deal_price # None /\ d.original_price # None
    /\ d.original_price > d.deal_price

\* C18: with dynamic adjustment disabled the threshold is MINIMUM_DISCOUNT
\* for every pool, and the candidates that pass the filter are exactly the
\* ones with an integer discount >= MINIMUM_DISCOUNT, both prices present
\* and original_price > deal_price
C18_FixedThresholdFilter ==
    ~enable_dynamic_discount =>
        /\ sel_pc # "idle" => threshold = minimum_discount
        /\ sel_pc = "filtered" =>
            /\ \A d \in Range(deals) :
                  d \in Range(candidates) <=> QualifiesAt(d, minimum_discount)
            /\ Len(candidates) =
                  Cardinality({i \in DOMAIN deals : QualifiesAt(deals[i], minimum_discount)})

\* of the well-formed candidates at 60 and at 45 percent, with
\* MINIMUM_DISCOUNT 50 and a target of 2 that the pool does not reach,
\* exactly the one at 60 percent passed
C18_Witness ==
    /\ sel_pc = "filtered" /\ ~enable_dynamic_discount
    /\ minimum_discount = 50 /\ target_deals_per_run = 2
    /\ deals = << [discount |-> 60, deal_price |-> 400, original_price |-> 1000],
                  [discount |-> 45, deal_price |-> 550, original_price |-> 1000] >>
    /\ candidates = << [discount |-> 60, deal_price |-> 400, original_price |-> 1000] >>

\* ------------------------------------------------------------------ claims: delivery

\* C19: send_telegram_message returns True only if an image post or a text
\* post of the call got a 200 response; if every request of the call failed
\* or raised, it returns False
C19_TrueOnlyAfterSuccess ==
    tg_pc = "done" =>
        (tg_ret <=> \E i \in DOMAIN tg_log : ~tg_log[i].exc /\ tg_log[i].status = 200)

\* the call returned True through the text post that followed a refused
\* image post
C19_Witness ==
    /\ tg_pc = "done" /\ tg_ret
    /\ Len(tg_log) = 2
    /\ tg_log[1].kind = "photo" /\ tg_log[1].status = 400
    /\ tg_log[2].kind = "text" /\ tg_log[2].status = 200

\* C20: with an image URL the first request of the call is an image post,
\* and whenever an image post gets a non-success response, a text post is
\* attempted later in the same call and no further image post is made
C20_ImageFirstThenTextFallback ==
    /\ [][(tg_image_url /\ tg_log = <<>> /\ tg_log' # <<>>)
            => tg_log'[1].kind = "photo"]_vars
    /\ [](tg_pc = "done" =>
            \A i \in DOMAIN tg_log :
                (tg_log[i].kind = "photo" /\ ~tg_log[i].exc /\ tg_log[i].status # 200)
                    => /\ \E j \in DOMAIN tg_log : j > i /\ tg_log[j].kind = "text"
                       /\ \A j \in DOMAIN tg_log : j > i => tg_log[j].kind # "photo")

\* the i-th request of the call got a 4xx response
ClientError(i) ==
    ~tg_log[i].exc /\ tg_log[i].status >= 400 /\ tg_log[i].status < 500

\* C21: in send_telegram_message a 4xx response is terminal: no further
\* request of the same delivery form follows it in that call; timeouts and
\* 5xx responses are retried, up to 3 requests per call
C21_ClientErrorEndsTheForm ==
    /\ \A i, j \in DOMAIN tg_log :
          (i < j /\ ClientError(i)) => tg_log[j].kind # tg_log[i].kind
    /\ Len(tg_log) <= TG_ATTEMPTS
    /\ (tg_pc = "done" /\ ~tg_ret /\ \A i \in DOMAIN tg_log : ~ClientError(i))
          => Len(tg_log) = TG_ATTEMPTS

\* ------------------------------------------------------------------ claims: listing parser

\* C22: when the reference price of a result block is less than or equal to
\* its selling price, the candidate parse_search_page produces has
\* original_price None and discount None
C22_ReferenceNotAboveSellingDiscarded ==
    (/\ ps_pc = "done" /\ ps_results # <<>>
     /\ ps_block.reference # None /\ ps_block.selling # None
     /\ ps_block.reference <= ps_block.selling)
        => /\ ps_results[1].original_price = None
           /\ ps_results[1].discount = None

\* ------------------------------------------------------------------ claims: retention

\* the most recent of the timestamps the document knows (None for none)
MostRecentKnown(doc) ==
    LET ts == {doc.last_posted_at, doc.timestamp, doc.date}
    IN CHOOSE x \in ts : \A y \in ts : y <= x

\* the document is older than the retention window at time t
Expired(doc, t) ==
    MostRecentKnown(doc) # None /\ MostRecentKnown(doc) < t - DB_RETENTION_DAYS * 24

\* C23: cleanup_old_records (run at the start of a run) removes exactly the
\* records whose most recent known timestamp is earlier than now minus
\* DB_RETENTION_DAYS and leaves every other record present and unchanged
C23_PrunesExactlyExpired ==
    [][(runs' = runs + 1 /\ lastEvent'.kind \in {"start", "captcha"})
        => db' = SelectSeq(db, LAMBDA doc : ~Expired(doc, now'))]_vars

\* a run has started 337 hours after the post of id 1: its record is gone
C23_Witness ==
    /\ lastEvent.kind = "start"
    /\ posts[1] # <<>> /\ now - posts[1][Len(posts[1])].at = 337
    /\ db_search(db, 1) = {}

\* ------------------------------------------------------------------ claims: one whole run

\* the page after page p of category c
PageAfter(c, p) == IF p < Categories[c] THEN <<c, p + 1>> ELSE <<c + 1, 1>>

\* C24: when fetch_html of a listing page returns no html for a reason
\* other than a bot wall, discover_deals goes on with the page after it
\* (of the same category, or the first of the next category) with the
\* candidates it has collected so far; and a run with a token that met no
\* bot wall returns only from its dispatch loop, after the filter
C24_FailedPageIsSkippedOnly ==
    [][/\ (dpc = "fetch_listing" /\ fpc = "done" /\ ~fhtml /\ ferr # "captcha"
              /\ dpc' # dpc)
          => /\ dpc' = "scan"
             /\ <<cat', page'>> = PageAfter(cat, page)
             /\ all_deals' = all_deals
             /\ seen_asins' = seen_asins
             /\ ~captcha_hit'
       /\ (ppc # "exited" /\ ppc' = "exited" /\ has_token /\ ~wallSeen)
          => ppc = "dispatch" /\ sel_pc = "sorted"]_vars

\* the first page of the first category gave a candidate, the second page
\* failed with "network" and the scan is at the second category
C24_Witness ==
    /\ ppc = "discover" /\ dpc = "scan"
    /\ ferr = "network" /\ ~fhtml /\ flog # <<>>
    /\ cat = 2 /\ page = 1
    /\ all_deals # <<>>

\* C26: every run of run_bot returns, with exit code 0 or 2
C26_RunTerminates == <>(ppc = "exited" /\ exit_code \in {0, 2})

\* a run has returned 0 after a delivery that failed on all three attempts
C26_Witness ==
    /\ ppc = "exited" /\ exit_code = 0
    /\ \E i \in DOMAIN rlog : rlog[i].kind = "failed"

\* the deal posts of the run so far
Delivered == {i \in DOMAIN rlog : rlog[i].kind = "posted"}

\* C27: the deal posts delivered in a run are never more than
\* MAX_POSTS_PER_RUN, and posted counts them and nothing else (no failed
\* delivery, no skip, no tip)
C27_PostsWithinLimit ==
    /\ Cardinality(Delivered) <= MAX_POSTS_PER_RUN
    /\ posted = Cardinality(Delivered)

\* a delivery failed, the next candidate was posted, a tip was sent: one
\* post is counted
C27_Witness ==
    /\ \E i, j, k \in DOMAIN rlog :
          /\ i < j /\ j < k
          /\ rlog[i].kind = "failed" /\ rlog[j].kind = "posted" /\ rlog[k].kind = "tip"
    /\ posted = 1

\* candidate a ranks strictly higher than candidate b
RanksHigher(a, b) ==
    \/ a.discount > b.discount
    \/ /\ a.discount = b.discount
       /\ a.original_price - a.deal_price > b.original_price - b.deal_price

\* C28: when a candidate is posted, every candidate of the run that ranks
\* strictly higher was dealt with earlier in the run (posted, skipped,
\* without message, or failed)
C28_HigherRankedFirst ==
    sel_pc = "sorted" =>
        \A n \in DOMAIN rlog : rlog[n].kind = "posted" =>
            \A j \in DOMAIN candidates :
                RanksHigher(candidates[j], candidates[rlog[n].idx]) =>
                    \E m \in 1..(n - 1) :
                        /\ rlog[m].idx = j
                        /\ rlog[m].kind \in {"posted", "skipped", "no_message", "failed"}

\* discover_deals returned the 8 percent candidate before the 10 percent
\* one; the delivery of the 10 percent one failed, then the 8 percent one
\* was posted
C28_Witness ==
    /\ Len(deals) = 2 /\ deals[1].discount = 8 /\ deals[2].discount = 10
    /\ \E m, n \in DOMAIN rlog :
          /\ m < n
          /\ rlog[m].kind = "failed" /\ candidates[rlog[m].idx].discount = 10
          /\ rlog[n].kind = "posted" /\ candidates[rlog[n].idx].discount = 8

C30_BotWallEndsRunQuietly ==
    (ppc = "exited" /\ captcha_hit) =>
        /\ exit_code = 0
        /\ sel_pc = "wait" /\ threshold = 0 /\ candidates = <<>>
        /\ rlog = <<>> /\ tg_pc = "idle" /\ tg_log = <<>>
        /\ posted = 0
        /\ db = SelectSeq(db_before, LAMBDA doc : ~Expired(doc, now))

\* the bot wall came after a candidate was collected, in a run that pruned
\* an expired record
C30_Witness ==
    /\ ppc = "exited" /\ captcha_hit
    /\ all_deals # <<>>
    /\ db_before # <<>> /\ db = <<>>

\* ------------------------------------------------------------------ claims: concurrent runs

\* C25: with two runs on one store, should_skip_deal -> delivery ->
\* record_posted_deal of an id is one unit with respect to the other run:
\* while one run is between its check and its record of an id, the other
\* is not, and the two runs never both post the id at the same price
\* within the cooldown window
C25_CheckSendRecordIsOneUnit ==
    /\ \A p, q \in DOMAIN cpc :
          (/\ p # q
           /\ cdeal[p].asin = cdeal[q].asin
           /\ cpc[p] \in {"send", "record"})
              => cpc[q] \notin {"send", "record"}
    /\ \A i, j \in DOMAIN cposts :
          (/\ cposts[i].run # cposts[j].run
           /\ cposts[i].asin = cposts[j].asin
           /\ cposts[i].price = cposts[j].price)
              => (cposts[j].at - cposts[i].at >= POST_COOLDOWN_HOURS
                  \/ cposts[i].at - cposts[j].at >= POST_COOLDOWN_HOURS)

\* ------------------------------------------------------------------ claims: should_skip_deal

\* the document was posted less than POST_COOLDOWN_HOURS before time t
InCooldown(doc, t) ==
    MostRecentKnown(doc) # None /\ t - MostRecentKnown(doc) < POST_COOLDOWN_HOURS

\* x is a number above zero
PositiveNumber(x) == x # None /\ x # NonNumeric /\ x > 0

\* C31: should_skip_deal was called for an id whose record is within the
\* cooldown window: it returned True when the recorded last price is
\* missing, not a number or zero, or the current price is missing or zero;
\* and when it returned False both prices are positive numbers
C31_NoOverrideWithoutTwoPrices ==
    (sk_calls > 0 /\ sk_asin # None /\ db_get(db, sk_asin) # 0
        /\ InCooldown(RecordOf(db, sk_asin), now))
    => LET last == RecordOf(db, sk_asin).last_price
       IN /\ (last \in {None, NonNumeric, 0} \/ sk_price \in {None, 0}) => sk_ret
          /\ ~sk_ret => (PositiveNumber(last) /\ PositiveNumber(sk_price))

\* within the cooldown window a record whose last price is not a number
\* was asked about the price 900: skip
C31_Witness ==
    /\ sk_calls > 0 /\ sk_asin # None /\ db_get(db, sk_asin) # 0
    /\ InCooldown(RecordOf(db, sk_asin), now)
    /\ RecordOf(db, sk_asin).last_price = NonNumeric
    /\ sk_price = 900
    /\ sk_ret

\* C32: a call of should_skip_deal leaves the store as it was, every
\* record and every field, and with it every later answer of
\* should_skip_deal, however many calls are made between two
\* record_posted_deal calls
C32_ShouldSkipIsReadOnly ==
    [][sk_calls' = sk_calls + 1 =>
          /\ db' = db
          /\ \A a \in Asins \cup {None}, p \in SkipPrices, k \in SkipDelays :
                should_skip_deal(db', a, p, now' + k)
                    = should_skip_deal(db, a, p, now + k)]_vars

\* after a record_posted_deal call, should_skip_deal was called twice on a
\* store that holds the record of the id asked about, and said skip
C32_Witness ==
    /\ sk_records = 1 /\ sk_calls >= 2
    /\ sk_asin # None /\ db_get(db, sk_asin) # 0
    /\ sk_ret

====
